---- MODULE Spec2Model ----
(***************************************************************************)
(* A model of spoty-sync's track-reconciliation and playlist-file engine:  *)
(* the playlist codec of src/app/api/files/m3u/route.ts (parse, serialize, *)
(* merge and the POST / PUT handlers), the similarity scorer and track     *)
(* matcher of src/app/api/sync/route.ts, the sync handler that ties them  *)
(* together, the text normalizers, the folder playlists by popularity of   *)
(* src/app/api/files/generate-m3u/route.ts, and the loop over all mappings *)
(* of src/services/sync-service.ts.                                        *)
(*                                                                         *)
(* A JavaScript string is a sequence of one-character strings, so that     *)
(* split, trim, startsWith, includes and replace are computed character by *)
(* character.  An optional value (extinf?: string, a file that may not     *)
(* exist) is a sequence of length 0 (undefined) or 1.                      *)
(***************************************************************************)
EXTENDS Integers, Sequences, FiniteSets, TLC

\* ---------------------------------------------------------------- bounds
\* number of blocks of lines in the playlist file that is on disk at the start
MaxExisting == 2
\* number of blocks of lines in the content a request carries
MaxNew == 2
\* number of entries of an entry list handed to serialize
MaxEntries == 2
\* number of words of a normalized string handed to the scorer
MaxWords == 2
\* number of items of the remote playlist
MaxTracks == 2
\* number of mp3 files in the scanned folder
MaxFiles == 2
\* number of items of one page of the remote playlist (limit=50 scaled down)
PageLimit == 1
\* number of files directly inside the base music folder
MaxPlaylists == 2
\* number of subfolders of the base music folder
MaxFolders == 2
\* number of pieces a string handed to a normalizer is made of
MaxPieces == 3
\* number of playlist mappings handed to syncAllPlaylists
MaxMappings == 2

\* ------------------------------------------------------- string helpers
NL == "\n"
WhiteSpace == {" ", "\t", "\r", "\n"}
EmptyStr == << >>
Undefined == << >>
Some(v) == << v >>

\* String.prototype.startsWith
StartsWith(s, prefix) ==
    /\ Len(s) >= Len(prefix)
    /\ SubSeq(s, 1, Len(prefix)) = prefix

\* String.prototype.includes
Includes(s, part) ==
    \E i \in 0..(Len(s) - Len(part)) : SubSeq(s, i + 1, i + Len(part)) = part

\* String.prototype.trim: drop the white space at both ends
Trim(s) ==
    LET keep == {i \in 1..Len(s) : s[i] \notin WhiteSpace}
    IN  IF keep = {} THEN EmptyStr
        ELSE SubSeq(s, CHOOSE i \in keep : \A j \in keep : i <= j,
                       CHOOSE i \in keep : \A j \in keep : j <= i)

\* String.prototype.split(sep) for a one-character separator
RECURSIVE Split(_, _)
Split(s, sep) ==
    LET at == {i \in 1..Len(s) : s[i] = sep}
    IN  IF at = {} THEN << s >>
        ELSE LET i == CHOOSE k \in at : \A j \in at : k <= j
             IN  << SubSeq(s, 1, i - 1) >> \o Split(SubSeq(s, i + 1, Len(s)), sep)

\* Array.prototype.join(sep) for a one-character separator
RECURSIVE Join(_, _)
Join(lines, sep) ==
    IF lines = << >> THEN EmptyStr
    ELSE IF Len(lines) = 1 THEN lines[1]
    ELSE lines[1] \o << sep >> \o Join(Tail(lines), sep)

\* s.replace(/\\/g, '/')
NormalizeSeparators(path) ==
    [i \in 1..Len(path) |-> IF path[i] = "\\" THEN "/" ELSE path[i]]

\* String(n) for a natural number n
RECURSIVE NumberToString(_)
NumberToString(n) ==
    LET digit == << <<"0", "1", "2", "3", "4", "5", "6", "7", "8", "9">>[(n % 10) + 1] >>
    IN  IF n < 10 THEN digit ELSE NumberToString(n \div 10) \o digit

\* all sequences over S of length at most n
SeqsUpTo(S, n) == UNION {[1..k -> S] : k \in 0..n}

Range(seq) == {seq[i] : i \in 1..Len(seq)}

\* -------------------------------------------------- the playlist format
EXTM3U == << "#", "E", "X", "T", "M", "3", "U" >>
EXTINF == << "#", "E", "X", "T", "I", "N", "F", ":" >>
Hash == << "#" >>

\* ------------------------------------------------------------ M3UTrack
M3UTrack(extinf, filePath) == [extinf |-> extinf, filePath |-> filePath]

\* a loop in which a comment line forgets the extinf line before it
RECURSIVE ParseLinesCommentClears(_, _, _)
ParseLinesCommentClears(lines, tracks, currentExtinf) ==
    IF lines = << >> THEN tracks
    ELSE LET line == Head(lines)
             rest == Tail(lines)
         IN  IF StartsWith(line, EXTM3U)
             THEN ParseLinesCommentClears(rest, tracks, currentExtinf)
             ELSE IF StartsWith(line, EXTINF)
                  THEN ParseLinesCommentClears(rest, tracks, Some(line))
             ELSE IF StartsWith(line, Hash)
                  THEN ParseLinesCommentClears(rest, tracks, Undefined)
             ELSE ParseLinesCommentClears(rest, Append(tracks, M3UTrack(currentExtinf, line)),
                                          Undefined)

\* parseM3UContent: the loop over the trimmed non-empty lines, with the
\* tracks found so far and currentExtinf
RECURSIVE ParseLines(_, _, _)
ParseLines(lines, tracks, currentExtinf) ==
    IF lines = << >> THEN tracks
    ELSE LET line == Head(lines)
             rest == Tail(lines)
         IN  IF StartsWith(line, EXTM3U) THEN ParseLines(rest, tracks, currentExtinf)
             ELSE IF StartsWith(line, EXTINF) THEN ParseLines(rest, tracks, Some(line))
             ELSE IF StartsWith(line, Hash) THEN ParseLines(rest, tracks, currentExtinf)
             ELSE IF line # EmptyStr
                  THEN ParseLines(rest, Append(tracks, M3UTrack(currentExtinf, line)),
                                  Undefined)
             ELSE ParseLines(rest, tracks, currentExtinf)

NonEmptyLine(line) == line # EmptyStr

TrimmedLines(content) ==
    LET raw == Split(content, NL)
    IN  SelectSeq([i \in 1..Len(raw) |-> Trim(raw[i])], NonEmptyLine)

parseM3UContent(content) == ParseLines(TrimmedLines(content), << >>, Undefined)

\* a Map.set that never finds the key: an array push
MapSetPush(trackMap, track) == Append(trackMap, track)

\* a Map.set that moves a key it overwrites to the end (delete, then set)
MapSetMoveToEnd(trackMap, track) ==
    Append(SelectSeq(trackMap, LAMBDA t : t.filePath # track.filePath), track)

\* Map.prototype.set on an insertion-ordered map kept as the sequence of its
\* values, keyed by filePath: an existing key keeps its place and gets the new
\* value, a new key goes to the end
MapSet(trackMap, track) ==
    IF \E i \in 1..Len(trackMap) : trackMap[i].filePath = track.filePath
    THEN [i \in 1..Len(trackMap) |->
            IF trackMap[i].filePath = track.filePath THEN track ELSE trackMap[i]]
    ELSE Append(trackMap, track)

RECURSIVE MapSetAll(_, _)
MapSetAll(trackMap, tracks) ==
    IF tracks = << >> THEN trackMap
    ELSE MapSetAll(MapSet(trackMap, Head(tracks)), Tail(tracks))

\* the trackMap mergeM3UContent builds from the two parsed contents
MergedTrackMap(existingContent, newContent) ==
    MapSetAll(MapSetAll(<< >>, parseM3UContent(existingContent)),
              parseM3UContent(newContent))

\* the two lines of a track pushed in the wrong order
TrackLinesPathFirst(track) ==
    << track.filePath >> \o
    (IF track.extinf # Undefined /\ track.extinf[1] # EmptyStr
     THEN << track.extinf[1] >> ELSE << >>)

\* the extinf line of a track never pushed
TrackLinesNoExtinf(track) == << track.filePath >>

\* the lines of one track: its extinf when it has a truthy one, then its path
TrackLines(track) ==
    (IF track.extinf # Undefined /\ track.extinf[1] # EmptyStr
     THEN << track.extinf[1] >> ELSE << >>) \o << track.filePath >>

RECURSIVE AllTrackLines(_)
AllTrackLines(tracks) ==
    IF tracks = << >> THEN << >>
    ELSE TrackLines(Head(tracks)) \o AllTrackLines(Tail(tracks))

\* the serialization at the end of mergeM3UContent
Serialize(tracks) == Join(<< EXTM3U >> \o AllTrackLines(tracks), NL)

mergeM3UContent(existingContent, newContent) ==
    Serialize(MergedTrackMap(existingContent, newContent))

\* --------------------------------------------------- similarity scorer
\* A score is the exact fraction num / den.  calculateMatchScore computes
\* matchedWords / trackWords.length (+ 0.2 or 0.3, capped at 1.0) in doubles;
\* for fewer than 5 track words the doubles compare with each other and with
\* 0.6 as the exact fractions do.
Score(num, den) == [num |-> num, den |-> den]
ScoreZero == Score(0, 1)
ScoreLess(a, b) == a.num * b.den < b.num * a.den
ScoreEq(a, b) == a.num * b.den = b.num * a.den
\* score >= 0.6
AtLeastThreshold(score) == 10 * score.num >= 6 * score.den
\* a sum that is not capped
CapNever(score) == score

\* Math.min(1.0, score)
CapAtOne(score) == IF score.num > score.den THEN Score(1, 1) ELSE score
\* score + tenths / 10
AddTenths(score, tenths) == Score(10 * score.num + tenths * score.den, 10 * score.den)

Min2(a, b) == IF a <= b THEN a ELSE b
Max2(a, b) == IF a >= b THEN a ELSE b
Abs(n) == IF n < 0 THEN 0 - n ELSE n

\* a row in which replacing a character costs as much as deleting it and
\* inserting the other
RECURSIVE LevRowNoSubstitution(_, _, _, _)
LevRowNoSubstitution(prev, cur, c, str1) ==
    LET j == Len(cur)
    IN  IF j > Len(str1) THEN cur
        ELSE LevRowNoSubstitution(prev,
                    Append(cur, IF c = str1[j] THEN prev[j]
                                ELSE Min2(cur[j] + 1, prev[j + 1] + 1)),
                    c, str1)

\* one row of the matrix of levenshteinDistance: row i from row i - 1 (prev),
\* cell by cell from j = 1; rows are indexed from 1, cell j is at j + 1
RECURSIVE LevRow(_, _, _, _)
LevRow(prev, cur, c, str1) ==
    LET j == Len(cur)
    IN  IF j > Len(str1) THEN cur
        ELSE LevRow(prev,
                    Append(cur, IF c = str1[j] THEN prev[j]
                                ELSE Min2(prev[j] + 1, Min2(cur[j] + 1, prev[j + 1] + 1))),
                    c, str1)

RECURSIVE LevRows(_, _, _, _)
LevRows(prev, i, str1, str2) ==
    IF i > Len(str2) THEN prev
    ELSE LevRows(LevRow(prev, << i >>, str2[i], str1), i + 1, str1, str2)

levenshteinDistance(str1, str2) ==
    LevRows([j \in 1..(Len(str1) + 1) |-> j - 1], 1, str1, str2)[Len(str1) + 1]

isWordMatch(word1, word2) ==
    IF word1 = word2 THEN TRUE
    ELSE IF /\ Len(word1) >= 3 /\ Len(word2) >= 3
            /\ (Includes(word1, word2) \/ Includes(word2, word1))
         THEN TRUE
    ELSE IF Abs(Len(word1) - Len(word2)) <= 2
         THEN LET distance == levenshteinDistance(word1, word2)
                  maxLength == Max2(Len(word1), Len(word2))
              \* 1 - distance / maxLength >= 0.8
              IN  5 * distance <= maxLength
    ELSE FALSE

LongWord(word) == Len(word) > 1

\* s.split(' ').filter(word => word.length > 1)
Words(s) == SelectSeq(Split(s, " "), LongWord)

\* s.split(' '): the short words kept
AllTokens(s) == Split(s, " ")

\* a count without the break: one for every pair of words that match
MatchedPairs(trackWords, fileWords) ==
    Cardinality({ij \in (1..Len(trackWords)) \X (1..Len(fileWords)) :
                    isWordMatch(trackWords[ij[1]], fileWords[ij[2]])})

\* the number of track words that match some file word
MatchedWords(trackWords, fileWords) ==
    Cardinality({i \in 1..Len(trackWords) :
                    \E j \in 1..Len(fileWords) : isWordMatch(trackWords[i], fileWords[j])})

\* the score, given how the two strings are cut into words
ScoreOfWords(normalizedTrack, normalizedFilename, trackWords, fileWords) ==
    IF Len(trackWords) = 0 \/ Len(fileWords) = 0 THEN ScoreZero
    ELSE LET score == Score(MatchedWords(trackWords, fileWords), Len(trackWords))
         IN  IF normalizedTrack = normalizedFilename THEN CapAtOne(AddTenths(score, 3))
             ELSE IF \/ Includes(normalizedFilename, normalizedTrack)
                     \/ Includes(normalizedTrack, normalizedFilename)
                  THEN CapAtOne(AddTenths(score, 2))
             ELSE score

\* const score = matchedWords / trackWords.length, for the early return Undefined
BaseScore(normalizedTrack, normalizedFilename) ==
    LET trackWords == Words(normalizedTrack)
        fileWords == Words(normalizedFilename)
    IN  IF Len(trackWords) = 0 \/ Len(fileWords) = 0 THEN Undefined
        ELSE Some(Score(MatchedWords(trackWords, fileWords), Len(trackWords)))

\* the track words counted without the filter on their length
calculateMatchScoreAllTokens(normalizedTrack, normalizedFilename) ==
    ScoreOfWords(normalizedTrack, normalizedFilename,
                 AllTokens(normalizedTrack), Words(normalizedFilename))

calculateMatchScore(normalizedTrack, normalizedFilename) ==
    ScoreOfWords(normalizedTrack, normalizedFilename,
                 Words(normalizedTrack), Words(normalizedFilename))

\* ------------------------------------------------------ text normalizer
UpperCase == << "A", "B", "C", "D", "E", "F", "G", "H", "I", "J", "K", "L", "M",
                "N", "O", "P", "Q", "R", "S", "T", "U", "V", "W", "X", "Y", "Z" >>
LowerCase == << "a", "b", "c", "d", "e", "f", "g", "h", "i", "j", "k", "l", "m",
                "n", "o", "p", "q", "r", "s", "t", "u", "v", "w", "x", "y", "z" >>
DigitChars == << "0", "1", "2", "3", "4", "5", "6", "7", "8", "9" >>

\* \w of a regular expression
IsWordChar(c) == c \in Range(UpperCase) \cup Range(LowerCase) \cup Range(DigitChars) \cup {"_"}

\* String.prototype.toLowerCase
toLowerCase(s) ==
    [i \in 1..Len(s) |->
        IF s[i] \in Range(UpperCase)
        THEN LowerCase[CHOOSE k \in 1..Len(UpperCase) : UpperCase[k] = s[i]]
        ELSE s[i]]

\* a character class that lets the dot through
KeptCharOrDot(c) == IsWordChar(c) \/ c \in WhiteSpace \/ c = "."

KeptChar(c) == IsWordChar(c) \/ c \in WhiteSpace

\* s.replace(/[^\w\s]/g, '')
RemoveSpecialChars(s) == SelectSeq(s, KeptChar)

\* s.replace(/\s+/g, ' ')
RECURSIVE NormalizeWhitespace(_)
NormalizeWhitespace(s) ==
    IF s = << >> THEN << >>
    ELSE IF Head(s) \in WhiteSpace
         THEN IF Len(s) > 1 /\ s[2] \in WhiteSpace THEN NormalizeWhitespace(Tail(s))
              ELSE << " " >> \o NormalizeWhitespace(Tail(s))
    ELSE << Head(s) >> \o NormalizeWhitespace(Tail(s))

\* s.replace(/\.mp3$/, '')
DotMp3 == << ".", "m", "p", "3" >>
EndsWith(s, suffix) ==
    Len(s) >= Len(suffix) /\ SubSeq(s, Len(s) - Len(suffix) + 1, Len(s)) = suffix
RemoveMp3Extension(s) ==
    IF EndsWith(s, DotMp3) THEN SubSeq(s, 1, Len(s) - Len(DotMp3)) ELSE s

\* names.join(sep)
RECURSIVE JoinStr(_, _)
JoinStr(strs, sep) ==
    IF strs = << >> THEN EmptyStr
    ELSE IF Len(strs) = 1 THEN strs[1]
    ELSE strs[1] \o sep \o JoinStr(Tail(strs), sep)

\* trackInfo.toLowerCase().replace(...).replace(...).trim()
NormalizeText(trackInfo) ==
    Trim(NormalizeWhitespace(RemoveSpecialChars(toLowerCase(trackInfo))))

normalizeTrackInfo(track) ==
    LET artists == JoinStr(track.artists, << " " >>)
        trackInfo == artists \o << " " >> \o track.name
    IN  NormalizeText(trackInfo)

\* normalizeFileName of /api/files/scan
normalizeFileName(filename) ==
    Trim(NormalizeWhitespace(RemoveSpecialChars(RemoveMp3Extension(toLowerCase(filename)))))

\* -------------------------------------------------------- track matcher
BestMatch(path, sc) == [path |-> path, score |-> sc]

\* the loop of findBestMatch: bestMatch is Undefined (null) or Some(BestMatch)
RECURSIVE FindBestLoop(_, _, _, _)
FindBestLoop(normalized, mp3Files, bestMatch, highestScore) ==
    IF mp3Files = << >> THEN bestMatch
    ELSE LET file == Head(mp3Files)
             sc == calculateMatchScore(normalized, file.normalizedName)
         IN  IF ScoreLess(highestScore, sc) /\ AtLeastThreshold(sc)
             THEN FindBestLoop(normalized, Tail(mp3Files), Some(BestMatch(file.path, sc)), sc)
             ELSE FindBestLoop(normalized, Tail(mp3Files), bestMatch, highestScore)

\* the loop with score >= highestScore: the last of the best files wins
RECURSIVE FindBestLoopLastWins(_, _, _, _)
FindBestLoopLastWins(normalized, mp3Files, bestMatch, highestScore) ==
    IF mp3Files = << >> THEN bestMatch
    ELSE LET file == Head(mp3Files)
             sc == calculateMatchScore(normalized, file.normalizedName)
         IN  IF ~ScoreLess(sc, highestScore) /\ AtLeastThreshold(sc)
             THEN FindBestLoopLastWins(normalized, Tail(mp3Files),
                                       Some(BestMatch(file.path, sc)), sc)
             ELSE FindBestLoopLastWins(normalized, Tail(mp3Files), bestMatch, highestScore)

\* the loop without the 0.6 threshold
RECURSIVE FindBestLoopNoThreshold(_, _, _, _)
FindBestLoopNoThreshold(normalized, mp3Files, bestMatch, highestScore) ==
    IF mp3Files = << >> THEN bestMatch
    ELSE LET file == Head(mp3Files)
             sc == calculateMatchScore(normalized, file.normalizedName)
         IN  IF ScoreLess(highestScore, sc)
             THEN FindBestLoopNoThreshold(normalized, Tail(mp3Files),
                                          Some(BestMatch(file.path, sc)), sc)
             ELSE FindBestLoopNoThreshold(normalized, Tail(mp3Files), bestMatch, highestScore)

findBestMatchLastWins(track, mp3Files) ==
    FindBestLoopLastWins(normalizeTrackInfo(track), mp3Files, Undefined, ScoreZero)

findBestMatchNoThreshold(track, mp3Files) ==
    FindBestLoopNoThreshold(normalizeTrackInfo(track), mp3Files, Undefined, ScoreZero)

findBestMatch(track, mp3Files) ==
    FindBestLoop(normalizeTrackInfo(track), mp3Files, Undefined, ScoreZero)

\* s.replace(/[<>:"/\\|?*]/g, '')
InvalidFilenameChars == {"<", ">", ":", "\"", "/", "\\", "|", "?", "*"}
ValidFilenameChar(c) == c \notin InvalidFilenameChars

generateExpectedFilename(track) ==
    LET artists == JoinStr(track.artists, << ",", " " >>)
        raw == artists \o << " ", "-", " " >> \o track.name
    IN  Trim(NormalizeWhitespace(SelectSeq(raw, ValidFilenameChar))) \o DotMp3

\* 'https://open.spotify.com/track/' + track.id, the host left out
SpotifyUrl(track) == << "/", "t", "r", "a", "c", "k", "/" >> \o track.id

\* the LocalTrackMatch pushed for one track: match?.path, !!match, match?.score
LocalTrackMatch(track, match) ==
    [spotifyTrack |-> track,
     localFilePath |-> IF match = Undefined THEN Undefined ELSE Some(match[1].path),
     isMatched |-> match # Undefined,
     matchScore |-> IF match = Undefined THEN Undefined ELSE Some(match[1].score),
     expectedFilename |-> generateExpectedFilename(track),
     spotifyUrl |-> SpotifyUrl(track)]

\* a loop that pushes a record only for a track that found a file
RECURSIVE matchTracksToFilesMatchedOnly(_, _)
matchTracksToFilesMatchedOnly(spotifyTracks, mp3Files) ==
    IF spotifyTracks = << >> THEN << >>
    ELSE LET match == findBestMatch(Head(spotifyTracks), mp3Files)
         IN  (IF match = Undefined THEN << >>
              ELSE << LocalTrackMatch(Head(spotifyTracks), match) >>)
             \o matchTracksToFilesMatchedOnly(Tail(spotifyTracks), mp3Files)

RECURSIVE MatchLoop(_, _)
MatchLoop(spotifyTracks, mp3Files) ==
    IF spotifyTracks = << >> THEN << >>
    ELSE << LocalTrackMatch(Head(spotifyTracks), findBestMatch(Head(spotifyTracks), mp3Files)) >>
         \o MatchLoop(Tail(spotifyTracks), mp3Files)

matchTracksToFiles(spotifyTracks, mp3Files) == MatchLoop(spotifyTracks, mp3Files)

\* ------------------------------------------- playlist text of a sync
\* normalizedBase of generateM3UContent: .replace(/\\/g, '/').replace(/\/$/, '')
NormalizedBase(baseMusicFolder) ==
    LET b == NormalizeSeparators(baseMusicFolder)
    IN  IF b # << >> /\ b[Len(b)] = "/" THEN SubSeq(b, 1, Len(b) - 1) ELSE b

\* the path line: relative to the base folder when the file is under it
RelativePath(localFilePath, baseMusicFolder) ==
    LET normalizedBase == NormalizedBase(baseMusicFolder)
        normalizedFull == NormalizeSeparators(localFilePath)
    IN  IF StartsWith(normalizedFull, normalizedBase)
        THEN SubSeq(normalizedFull, Len(normalizedBase) + 2, Len(normalizedFull))
        ELSE localFilePath

\* Math.round((duration_ms || 0) / 1000)
DurationSeconds(track) == (track.duration_ms + 500) \div 1000

\* `#EXTINF:${duration},${artists} - ${title}`
ExtinfOf(track) ==
    EXTINF \o NumberToString(DurationSeconds(track)) \o << "," >>
    \o JoinStr(track.artists, << ",", " " >>) \o << " ", "-", " " >> \o track.name

RECURSIVE SyncLines(_, _)
SyncLines(matches, baseMusicFolder) ==
    IF matches = << >> THEN << >>
    ELSE LET match == Head(matches)
         IN  (IF match.isMatched /\ match.localFilePath # Undefined
                 /\ match.localFilePath[1] # EmptyStr
              THEN << ExtinfOf(match.spotifyTrack),
                      RelativePath(match.localFilePath[1], baseMusicFolder) >>
              ELSE << >>)
             \o SyncLines(Tail(matches), baseMusicFolder)

\* generateM3UContent of /api/sync
generateM3UContent(matches, baseMusicFolder) ==
    Join(<< EXTM3U >> \o SyncLines(matches, baseMusicFolder), NL)

\* ------------------------------------------------ the inputs of the model
\* lines of a playlist text
LInf1 == EXTINF \o << "1" >>
LInf2 == EXTINF \o << "2" >>
LComment == << "#", "x" >>
PathA == << "a" >>
PathPadded == << " ", "a", "\r" >>
PathSlash == << "d", "/", "a" >>
PathBack == << "d", "\\", "a" >>

\* blocks of lines a playlist text is made of: a bare path; a path with its
\* extinf; an extinf overwritten by a second one that a blank line, a header
\* and a comment separate from its (padded) path; the same file under both
\* separators
BlockVocab ==
    { << PathA >>,
      << LInf1, PathA >>,
      << LInf1, LInf2, EmptyStr, EXTM3U, LComment, PathPadded >>,
      << PathSlash >>,
      << LInf1, PathBack >> }

RECURSIVE Flatten(_)
Flatten(blocks) ==
    IF blocks = << >> THEN << >> ELSE Head(blocks) \o Flatten(Tail(blocks))

\* the playlist texts of at most n blocks
Texts(n) == {Join(Flatten(blocks), NL) : blocks \in SeqsUpTo(BlockVocab, n)}

FileName == << "l", ".", "m", "3", "u" >>

\* the bodies a client sends to /api/files/m3u: content (POST) or newContent
\* and mergeMode (PUT); a missing field is Undefined, a missing path is ''
M3uRequests ==
    [method : {"POST"}, filePath : {FileName}, content : {Some(t) : t \in Texts(MaxNew)},
     mergeMode : {Undefined}]
    \cup
    [method : {"PUT"}, filePath : {FileName}, content : {Some(t) : t \in Texts(MaxNew)},
     mergeMode : {Undefined, Some(TRUE), Some(FALSE)}]
    \cup
    [method : {"POST", "PUT"}, filePath : {EmptyStr}, content : {Some(EmptyStr)},
     mergeMode : {Undefined}]
    \cup
    [method : {"POST", "PUT"}, filePath : {FileName}, content : {Undefined},
     mergeMode : {Undefined}]

NoRequest == [method |-> "none", filePath |-> EmptyStr, content |-> Undefined,
              mergeMode |-> Undefined]

\* ----------------------------------------------------------------- state
VARIABLES
    disk,             \* the playlist file: Undefined (no such file) or Some(text)
    existingContent,  \* the playlist file as it was before the last request
    request,          \* the last request to /api/files/m3u
    status,           \* the HTTP status of the answer to it (0: none yet)
    phase,            \* "idle", "served" (one request), "resent" (the same again)
    entries,          \* an entry list handed to serialize
    serialized,       \* Undefined, or Some(the text serialize made of entries)
    parsed,           \* Undefined, or Some(the entries parse found in that text)
    normalizedTrack,     \* the first argument of calculateMatchScore
    normalizedFilename,  \* its second argument
    score,               \* Undefined, or Some(the score it returned)
    baseScore,           \* Undefined, or Some(its score before the bonus)
    syncRequest,      \* the body of the request to /api/sync
    remoteTracks,     \* the items of the playlist at the remote service
    folderFiles,      \* the mp3 files the scan finds in the language folder
    pc,               \* where the sync handler is
    allTracks,        \* allTracks of the handler
    nextPage,         \* the page tracksData.next points to (0: none)
    mp3Files,         \* Undefined, or Some(the files the scan answered with)
    matches,          \* Undefined, or Some(matchTracksToFiles(...))
    syncStatus,       \* the HTTP status of the handler's answer (0: none yet)
    syncResult,       \* Undefined, or Some(the SyncResult it returned)
    ioLog,            \* the kinds of I/O the sync or folder-generation handler has done
    genRequest,       \* the body of the request to /api/files/generate-m3u
    baseDir,          \* the base music folder: "missing", "unreadable" or "ok"
    baseFiles,        \* the files directly inside it, in the order readdir gives
    subfolders,       \* its subfolders with the files found in each, in scan order
    genPc,            \* where the folder-generation handler is
    songCounts,       \* songCounts of the handler: path -> number of appearances
    folderIndex,      \* the subfolder the loop of the handler is at
    results,          \* results of the handler
    failedFolders,    \* the subfolders whose writeFile threw
    genStatus,        \* the HTTP status of the handler's answer (0: none yet)
    genResponse,      \* Undefined, or Some(the body of its answer)
    previousFiles,    \* Undefined, or Some(the files of the base folder after the run before)
    normInput,        \* a string handed to a normalizer
    normKind,         \* which one: "track" or "file"
    normOnce,         \* Undefined, or Some(the string normalized)
    normTwice,        \* Undefined, or Some(the normalized string normalized again)
    mappings,         \* the mappings handed to syncAllPlaylists
    syncAllPc,        \* where syncAllPlaylists is: "none", "loop" or "returned"
    mappingIndex,     \* i of its loop, counted from 1
    allResults,       \* results of syncAllPlaylists
    failedSyncs       \* the places of the mappings whose syncPlaylist threw

codecVars == << disk, existingContent, request, status, phase >>
roundTripVars == << entries, serialized, parsed >>
scoreVars == << normalizedTrack, normalizedFilename, score, baseScore >>
syncVars == << syncRequest, remoteTracks, folderFiles, pc, allTracks, nextPage,
               mp3Files, matches, syncStatus, syncResult >>

genVars == << genRequest, baseDir, baseFiles, subfolders, genPc, songCounts,
              folderIndex, results, failedFolders, genStatus, genResponse,
              previousFiles >>
normVars == << normInput, normKind, normOnce, normTwice >>
syncAllVars == << mappings, syncAllPc, mappingIndex, allResults, failedSyncs >>

vars == << codecVars, roundTripVars, scoreVars, syncVars, ioLog, genVars, normVars,
          syncAllVars >>

\* fs.readFile inside the try of PUT: a missing file leaves ''
ReadExisting(d) == IF d = Undefined THEN EmptyStr ELSE d[1]

\* { filePath, newContent, mergeMode = true } = body
MergeModeOf(req) == IF req.mergeMode = Undefined THEN TRUE ELSE req.mergeMode[1]

\* !filePath || content === undefined
BadM3uRequest(req) == req.filePath = EmptyStr \/ req.content = Undefined

\* the content PUT writes
FinalContent(d, req) ==
    IF MergeModeOf(req) THEN mergeM3UContent(ReadExisting(d), req.content[1])
    ELSE req.content[1]

\* the content POST writes
PostContent(d, req) == req.content[1]

\* one request handled by the route: 400 without any I/O, 500 when mkdir or
\* writeFile throws (written = FALSE), else the file is replaced
Handle(req, written) ==
    /\ request' = req
    /\ existingContent' = disk
    /\ IF BadM3uRequest(req) THEN status' = 400 /\ disk' = disk
       ELSE IF ~written THEN status' = 500 /\ disk' = disk
       ELSE /\ status' = 200
            /\ disk' = Some(IF req.method = "PUT" THEN FinalContent(disk, req)
                            ELSE PostContent(disk, req))

\* export async function POST of /api/files/m3u
M3uPOST ==
    /\ phase = "idle"
    /\ \E req \in M3uRequests, written \in BOOLEAN :
          /\ req.method = "POST"
          /\ Handle(req, written)
    /\ phase' = "served"

\* export async function PUT of /api/files/m3u
M3uPUT ==
    /\ phase = "idle"
    /\ \E req \in M3uRequests, written \in BOOLEAN :
          /\ req.method = "PUT"
          /\ Handle(req, written)
    /\ phase' = "served"

\* the client sends the PUT it sent before once more
Resend ==
    /\ phase = "served"
    /\ status = 200
    /\ request.method = "PUT"
    /\ Handle(request, TRUE)
    /\ phase' = "resent"

CodecIdle ==
    /\ existingContent = Undefined
    /\ request = NoRequest
    /\ status = 0
    /\ phase = "idle"

RoundTripIdle ==
    /\ entries = << >>
    /\ serialized = Undefined
    /\ parsed = Undefined

ScoreIdle ==
    /\ normalizedTrack = EmptyStr
    /\ normalizedFilename = EmptyStr
    /\ score = Undefined
    /\ baseScore = Undefined

NoSyncRequest == [playlistId |-> EmptyStr, accessToken |-> EmptyStr,
                  mapping |-> Undefined, baseMusicFolder |-> EmptyStr,
                  matchingConfig |-> Undefined]

SyncIdle ==
    /\ syncRequest = NoSyncRequest
    /\ remoteTracks = << >>
    /\ folderFiles = << >>
    /\ pc = "none"
    /\ allTracks = << >>
    /\ nextPage = 0
    /\ mp3Files = Undefined
    /\ matches = Undefined
    /\ syncStatus = 0
    /\ syncResult = Undefined

NoGenRequest == [baseMusicFolder |-> EmptyStr]

GenIdle ==
    /\ genRequest = NoGenRequest
    /\ baseDir = "ok"
    /\ baseFiles = << >>
    /\ subfolders = << >>
    /\ genPc = "none"
    /\ songCounts = << >>
    /\ folderIndex = 0
    /\ results = << >>
    /\ failedFolders = {}
    /\ genStatus = 0
    /\ genResponse = Undefined
    /\ previousFiles = Undefined

NormIdle ==
    /\ normInput = EmptyStr
    /\ normKind = "none"
    /\ normOnce = Undefined
    /\ normTwice = Undefined

SyncAllIdle ==
    /\ mappings = << >>
    /\ syncAllPc = "none"
    /\ mappingIndex = 0
    /\ allResults = << >>
    /\ failedSyncs = {}

CodecInit ==
    /\ disk \in {Undefined} \cup {Some(t) : t \in Texts(MaxExisting)}
    /\ CodecIdle
    /\ RoundTripIdle
    /\ ScoreIdle
    /\ SyncIdle
    /\ ioLog = {}
    /\ GenIdle
    /\ NormIdle
    /\ SyncAllIdle

CodecNext ==
    \/ M3uPOST /\ UNCHANGED << roundTripVars, scoreVars, syncVars, ioLog, genVars, normVars, syncAllVars >>
    \/ M3uPUT /\ UNCHANGED << roundTripVars, scoreVars, syncVars, ioLog, genVars, normVars, syncAllVars >>
    \/ Resend /\ UNCHANGED << roundTripVars, scoreVars, syncVars, ioLog, genVars, normVars, syncAllVars >>

SpecCodec == CodecInit /\ [][CodecNext]_vars

\* --------------------------------------------- serialize, then parse back
PathHash == << "#", "d", "/", "a" >>
PathLead == << " ", "a" >>

\* entries of the M3UTrack type: any string as filePath, any string or none as
\* extinf; '#d/a' is the file a in a folder named '#d'
EntryVocab ==
    [extinf : {Undefined, Some(LInf1), Some(LInf2), Some(EmptyStr), Some(LComment)},
     filePath : {PathA, PathSlash, PathBack, PathHash, PathLead}]

\* the serialization of mergeM3UContent applied to an entry list
DoSerialize ==
    /\ serialized = Undefined
    /\ serialized' = Some(Serialize(entries))
    /\ UNCHANGED << entries, parsed >>

\* parseM3UContent applied to the text serialize made
DoParse ==
    /\ serialized # Undefined
    /\ parsed = Undefined
    /\ parsed' = Some(parseM3UContent(serialized[1]))
    /\ UNCHANGED << entries, serialized >>

RoundTripInit ==
    /\ disk = Undefined
    /\ CodecIdle
    /\ entries \in SeqsUpTo(EntryVocab, MaxEntries)
    /\ serialized = Undefined
    /\ parsed = Undefined
    /\ ScoreIdle
    /\ SyncIdle
    /\ ioLog = {}
    /\ GenIdle
    /\ NormIdle
    /\ SyncAllIdle

RoundTripNext ==
    \/ DoSerialize /\ UNCHANGED << codecVars, scoreVars, syncVars, ioLog, genVars, normVars, syncAllVars >>
    \/ DoParse /\ UNCHANGED << codecVars, scoreVars, syncVars, ioLog, genVars, normVars, syncAllVars >>

SpecRoundTrip == RoundTripInit /\ [][RoundTripNext]_vars

\* ------------------------------------------------ the scorer on its own
\* words of a normalized string: one too short to count, and two of five
\* letters one substitution apart
WordVocab ==
    { << "a" >>, << "a", "b" >>, << "a", "b", "c" >>,
      << "a", "b", "c", "d", "e" >>, << "a", "b", "x", "d", "e" >> }

\* normalized strings: lower-case words joined by single spaces
NormStrings == {Join(ws, " ") : ws \in SeqsUpTo(WordVocab, MaxWords)}

\* calculateMatchScore applied to the two strings
DoScore ==
    /\ score = Undefined
    /\ score' = Some(calculateMatchScore(normalizedTrack, normalizedFilename))
    /\ baseScore' = BaseScore(normalizedTrack, normalizedFilename)
    /\ UNCHANGED << normalizedTrack, normalizedFilename >>

ScoreInit ==
    /\ disk = Undefined
    /\ CodecIdle
    /\ RoundTripIdle
    /\ normalizedTrack \in NormStrings
    /\ normalizedFilename \in NormStrings
    /\ score = Undefined
    /\ baseScore = Undefined
    /\ SyncIdle
    /\ ioLog = {}
    /\ GenIdle
    /\ NormIdle
    /\ SyncAllIdle

ScoreNext == DoScore /\ UNCHANGED << codecVars, roundTripVars, syncVars, ioLog, genVars, normVars, syncAllVars >>

SpecScore == ScoreInit /\ [][ScoreNext]_vars

\* ------------------------------------------------------ the sync handler
BaseMusicFolder == << "/", "m" >>
LanguageFolder == << "e" >>
PlaylistId == << "p", "1" >>
AccessToken == << "t", "k" >>
PlaylistName == << "P" >>

Mapping == [spotifyPlaylistId |-> PlaylistId, spotifyPlaylistName |-> PlaylistName,
            languageFolderName |-> LanguageFolder, m3uFileName |-> FileName]

\* path.join of plain segments
PathJoin(dir, name) == dir \o << "/" >> \o name

\* the body SyncService.syncPlaylist sends; the handler reads the first four fields
SyncRequestOk == [playlistId |-> PlaylistId, accessToken |-> AccessToken,
                  mapping |-> Some(Mapping), baseMusicFolder |-> BaseMusicFolder,
                  matchingConfig |-> Undefined]

\* a MatchingConfig that departs from the defaults in each option
CaseSensitiveConfig ==
    [caseSensitive |-> TRUE, removeSpecialChars |-> FALSE, normalizeWhitespace |-> FALSE]

\* the complete body, without and with a matchingConfig, and the bodies that
\* lack one of the four required fields
SyncRequests ==
    { SyncRequestOk,
      [SyncRequestOk EXCEPT !.matchingConfig = Some(CaseSensitiveConfig)],
      [SyncRequestOk EXCEPT !.playlistId = EmptyStr],
      [SyncRequestOk EXCEPT !.accessToken = EmptyStr],
      [SyncRequestOk EXCEPT !.mapping = Undefined],
      [SyncRequestOk EXCEPT !.baseMusicFolder = EmptyStr] }

Track(id, artists, name, ms, type) ==
    [id |-> id, artists |-> artists, name |-> name, duration_ms |-> ms, type |-> type]

\* the items of a remote playlist: "Ab" - "Cde!", the same title by two artists
\* (which only resembles the files), and a podcast episode
ItemVocab ==
    { Track(<< "1" >>, << << "A", "b" >> >>, << "C", "d", "e", "!" >>, 2500, "track"),
      Track(<< "2" >>, << << "A", "b" >>, << "X", "y" >> >>, << "C", "d", "e" >>, 0, "track"),
      Track(<< "4" >>, << << "A", "b" >> >>, << "C", "d", "e" >>, 1000, "episode") }

Mp3(name, dir) == [name |-> name, path |-> PathJoin(dir, name)]

LanguageFolderPath == PathJoin(BaseMusicFolder, LanguageFolder)

\* the mp3 files of the language folder: the exact name, a part of it, the same
\* name again (other case and spacing) in a subfolder, and an unrelated one
FileVocab ==
    { Mp3(<< "A", "b", " ", "C", "d", "e", ".", "m", "p", "3" >>, LanguageFolderPath),
      Mp3(<< "c", "d", "e", ".", "m", "p", "3" >>, LanguageFolderPath),
      Mp3(<< "A", "B", " ", " ", "c", "d", "e", ".", "M", "P", "3" >>, PathJoin(LanguageFolderPath, << "s" >>)),
      Mp3(<< "z", "z", ".", "m", "p", "3" >>, LanguageFolderPath) }

\* the sequences without repetition over S of length at most n
InjectiveSeqs(S, n) == {q \in SeqsUpTo(S, n) : \A i, j \in 1..Len(q) : q[i] = q[j] => i = j}

\* a playlist file somebody curated: a file the sync will find again under
\* another label, and a file no remote track names
CuratedText ==
    Join(<< EXTM3U, EXTINF \o << "9", ",", "m", "i", "n", "e" >>, << "e", "/", "c", "d", "e", ".", "m", "p", "3" >>, << "e", "/", "z", "z", ".", "m", "p", "3" >> >>, NL)

\* the files of /api/files/scan: each with its normalizedName
ScanResult(files) ==
    [i \in 1..Len(files) |->
        [name |-> files[i].name, path |-> files[i].path,
         normalizedName |-> normalizeFileName(files[i].name)]]

\* a check that forgets the access token
BadSyncRequestTokenUnchecked(req) ==
    \/ req.playlistId = EmptyStr
    \/ req.mapping = Undefined
    \/ req.baseMusicFolder = EmptyStr

\* !playlistId || !accessToken || !mapping || !baseMusicFolder
BadSyncRequest(req) ==
    \/ req.playlistId = EmptyStr
    \/ req.accessToken = EmptyStr
    \/ req.mapping = Undefined
    \/ req.baseMusicFolder = EmptyStr

IsTrack(item) == item.type # "episode"

\* items.map(item => item.track).filter(track => track && track.type !== 'episode')
PageTracks(k) ==
    SelectSeq(SubSeq(remoteTracks, (k - 1) * PageLimit + 1,
                     Min2(k * PageLimit, Len(remoteTracks))), IsTrack)

\* tracksData.next of page k
HasNext(k) == k * PageLimit < Len(remoteTracks)

IsMatched(m) == m.isMatched
IsUnmatched(m) == ~m.isMatched

\* a catch that answers as if the sync had gone well
Fail200 ==
    /\ syncStatus' = 200
    /\ pc' = "done"

\* the catch of the handler: status 500, no result
Fail500 ==
    /\ syncStatus' = 500
    /\ pc' = "done"

\* the check of the four parameters
SyncValidate ==
    /\ pc = "received"
    /\ IF BadSyncRequest(syncRequest)
       THEN syncStatus' = 400 /\ pc' = "done"
       ELSE syncStatus' = syncStatus /\ pc' = "fetch"
    /\ ioLog' = ioLog
    /\ UNCHANGED << syncRequest, remoteTracks, folderFiles, allTracks, nextPage,
                    mp3Files, matches, syncResult, codecVars >>

\* the first page of the playlist's tracks: a failure throws
FetchFirstPage ==
    /\ pc = "fetch"
    /\ \E ok \in BOOLEAN :
          IF ok
          THEN /\ allTracks' = PageTracks(1)
               /\ nextPage' = IF HasNext(1) THEN 2 ELSE 0
               /\ pc' = IF HasNext(1) THEN "paging" ELSE "scan"
               /\ syncStatus' = syncStatus
          ELSE /\ Fail500
               /\ UNCHANGED << allTracks, nextPage >>
    /\ ioLog' = ioLog \cup {"fetch"}
    /\ UNCHANGED << syncRequest, remoteTracks, folderFiles, mp3Files, matches,
                    syncResult, codecVars >>

\* one turn of the while (tracksData.next) loop: a failure breaks out of it
FetchNextPage ==
    /\ pc = "paging"
    /\ \E ok \in BOOLEAN :
          IF ok
          THEN /\ allTracks' = allTracks \o PageTracks(nextPage)
               /\ nextPage' = IF HasNext(nextPage) THEN nextPage + 1 ELSE 0
               /\ pc' = IF HasNext(nextPage) THEN "paging" ELSE "scan"
          ELSE /\ pc' = "scan"
               /\ UNCHANGED << allTracks, nextPage >>
    /\ ioLog' = ioLog \cup {"fetch"}
    /\ UNCHANGED << syncRequest, remoteTracks, folderFiles, mp3Files, matches,
                    syncStatus, syncResult, codecVars >>

\* the scan of the language folder, then the matching of the tracks
ScanAndMatch ==
    /\ pc = "scan"
    /\ \E ok \in BOOLEAN :
          IF ok
          THEN /\ mp3Files' = Some(ScanResult(folderFiles))
               /\ matches' = Some(matchTracksToFiles(allTracks, ScanResult(folderFiles)))
               /\ pc' = "create"
               /\ syncStatus' = syncStatus
          ELSE /\ Fail500
               /\ UNCHANGED << mp3Files, matches >>
    /\ ioLog' = ioLog \cup {"scan"}
    /\ UNCHANGED << syncRequest, remoteTracks, folderFiles, allTracks, nextPage,
                    syncResult >>
    /\ UNCHANGED codecVars

\* the body the handler sends to /api/files/m3u with method POST
CreateFileRequest ==
    [method |-> "POST",
     filePath |-> PathJoin(syncRequest.baseMusicFolder, syncRequest.mapping[1].m3uFileName),
     content |-> Some(generateM3UContent(matches[1], syncRequest.baseMusicFolder)),
     mergeMode |-> Undefined]

\* the playlist file is created through /api/files/m3u, then the result is built
CreateFile ==
    /\ pc = "create"
    /\ \E written \in BOOLEAN : Handle(CreateFileRequest, written)
    /\ phase' = phase
    /\ pc' = "done"
    /\ IF status' = 200
       THEN /\ syncStatus' = 200
            /\ syncResult' =
                 Some([playlistId |-> syncRequest.playlistId,
                       playlistName |-> syncRequest.mapping[1].spotifyPlaylistName,
                       totalTracks |-> Len(allTracks),
                       matchedTracks |-> Len(SelectSeq(matches[1], IsMatched)),
                       unmatchedTracks |-> SelectSeq(matches[1], IsUnmatched),
                       m3uFilePath |-> CreateFileRequest.filePath])
       ELSE /\ syncStatus' = 500
            /\ syncResult' = syncResult
    /\ ioLog' = ioLog \cup {"createFile"}
    /\ UNCHANGED << syncRequest, remoteTracks, folderFiles, allTracks, nextPage,
                    mp3Files, matches >>

SyncInit ==
    /\ disk \in {Undefined, Some(CuratedText)}
    /\ CodecIdle
    /\ RoundTripIdle
    /\ ScoreIdle
    /\ syncRequest \in SyncRequests
    /\ remoteTracks \in SeqsUpTo(ItemVocab, MaxTracks)
    /\ folderFiles \in InjectiveSeqs(FileVocab, MaxFiles)
    /\ pc = "received"
    /\ allTracks = << >>
    /\ nextPage = 0
    /\ mp3Files = Undefined
    /\ matches = Undefined
    /\ syncStatus = 0
    /\ syncResult = Undefined
    /\ ioLog = {}
    /\ GenIdle
    /\ NormIdle
    /\ SyncAllIdle

SyncNext ==
    \/ SyncValidate /\ UNCHANGED << roundTripVars, scoreVars, genVars, normVars, syncAllVars >>
    \/ FetchFirstPage /\ UNCHANGED << roundTripVars, scoreVars, genVars, normVars, syncAllVars >>
    \/ FetchNextPage /\ UNCHANGED << roundTripVars, scoreVars, genVars, normVars, syncAllVars >>
    \/ ScanAndMatch /\ UNCHANGED << roundTripVars, scoreVars, genVars, normVars, syncAllVars >>
    \/ CreateFile /\ UNCHANGED << roundTripVars, scoreVars, genVars, normVars, syncAllVars >>

SpecSync == SyncInit /\ [][SyncNext]_vars

\* ------------------------------------- folder playlists by popularity
\* (src/app/api/files/generate-m3u/route.ts)
DotM3u == << ".", "m", "3", "u" >>

\* item.name.toLowerCase().endsWith('.m3u') of a file of the base folder
IsM3uFile(item) == EndsWith(toLowerCase(item.name), DotM3u)

\* item.name.toLowerCase().endsWith('.mp3')
IsMp3File(item) == EndsWith(toLowerCase(item.name), DotMp3)

\* songCounts.get(path) || 0
CountOf(counts, path) == IF path \in DOMAIN counts THEN counts[path] ELSE 0

\* songCounts.set(path, n)
CountSet(counts, path, n) ==
    [q \in DOMAIN counts \cup {path} |-> IF q = path THEN n ELSE counts[q]]

\* a count of playlists: a path is counted once for a playlist, however often
\* the playlist names it
RECURSIVE CountTracksOncePerPlaylist(_, _)
CountTracksOncePerPlaylist(tracks, counts) ==
    IF tracks = << >> THEN counts
    ELSE LET normalizedPath == NormalizeSeparators(Head(tracks).filePath)
             again == \E i \in 2..Len(tracks) :
                         NormalizeSeparators(tracks[i].filePath) = normalizedPath
         IN  IF again THEN CountTracksOncePerPlaylist(Tail(tracks), counts)
             ELSE CountTracksOncePerPlaylist(Tail(tracks),
                      CountSet(counts, normalizedPath, CountOf(counts, normalizedPath) + 1))

\* for (const track of tracks): one more appearance of its normalized path
RECURSIVE CountTracks(_, _)
CountTracks(tracks, counts) ==
    IF tracks = << >> THEN counts
    ELSE LET normalizedPath == NormalizeSeparators(Head(tracks).filePath)
             currentCount == CountOf(counts, normalizedPath)
         IN  CountTracks(Tail(tracks), CountSet(counts, normalizedPath, currentCount + 1))

\* a scan that ends at the first file readFile throws on
RECURSIVE CountFilesUntilFailure(_, _)
CountFilesUntilFailure(m3uFiles, counts) ==
    IF m3uFiles = << >> THEN counts
    ELSE IF Head(m3uFiles).readable
         THEN CountFilesUntilFailure(Tail(m3uFiles),
                         CountTracks(parseM3UContent(Head(m3uFiles).content), counts))
         ELSE counts

\* for (const m3uFilePath of m3uFiles): a file readFile throws on is passed over
RECURSIVE CountFiles(_, _)
CountFiles(m3uFiles, counts) ==
    IF m3uFiles = << >> THEN counts
    ELSE IF Head(m3uFiles).readable
         THEN CountFiles(Tail(m3uFiles),
                         CountTracks(parseM3UContent(Head(m3uFiles).content), counts))
         ELSE CountFiles(Tail(m3uFiles), counts)

\* readdir of a folder that cannot be read throws: the map stays empty
countSongAppearances(dir, files) ==
    IF dir = "ok" THEN CountFiles(SelectSeq(files, IsM3uFile), << >>) ELSE << >>

\* a listing that a folder that cannot be read still gives
getSubfoldersOfAny(dir, folders) == [i \in 1..Len(folders) |-> folders[i].name]

\* the names of the directories inside the base folder; [] when readdir throws
getSubfolders(dir, folders) ==
    IF dir = "ok" THEN [i \in 1..Len(folders) |-> folders[i].name] ELSE << >>

\* path.join(dirPath, item.name) down to a file of a subfolder
ItemPath(folderPath, item) ==
    IF item.dir = EmptyStr THEN PathJoin(folderPath, item.name)
    ELSE PathJoin(PathJoin(folderPath, item.dir), item.name)

\* the mp3 files of a subfolder, nested directories included, in scan order
getMp3FilesInFolder(folderPath, items) ==
    LET found == SelectSeq(items, IsMp3File)
    IN  [i \in 1..Len(found) |->
            [name |-> found[i].name, path |-> ItemPath(folderPath, found[i])]]

\* path.relative(from, to) for a path below from
PathRelative(from, to) == SubSeq(to, Len(from) + 2, Len(to))

\* a SongCount for each mp3 file
PlaylistEntries(base, mp3, counts) ==
    [i \in 1..Len(mp3) |->
        LET normalizedPath == NormalizeSeparators(PathRelative(base, mp3[i].path))
        IN  [filePath |-> normalizedPath, fileName |-> mp3[i].name,
             count |-> CountOf(counts, normalizedPath)]]

\* the order of the characters of file names under String.prototype.localeCompare:
\* punctuation, then digits, then letters; the case of a letter counts only
\* between strings that are otherwise equal, lower case first
CollationOrder ==
    << "_", "-", ".", "0", "1", "2", "3", "4", "5", "6", "7", "8", "9" >> \o LowerCase

CollationRank(c) ==
    LET lower == toLowerCase(<< c >>)[1]
    IN  CHOOSE k \in 1..Len(CollationOrder) : CollationOrder[k] = lower

\* -1, 0 or 1 as the ranks of a are before, equal to or after the ranks of b
RECURSIVE ComparePrimary(_, _)
ComparePrimary(a, b) ==
    IF a = << >> THEN (IF b = << >> THEN 0 ELSE -1)
    ELSE IF b = << >> THEN 1
    ELSE IF CollationRank(Head(a)) < CollationRank(Head(b)) THEN -1
    ELSE IF CollationRank(Head(a)) > CollationRank(Head(b)) THEN 1
    ELSE ComparePrimary(Tail(a), Tail(b))

\* the case of the first character in which two strings of equal ranks differ
RECURSIVE CompareCase(_, _)
CompareCase(a, b) ==
    IF a = << >> THEN 0
    ELSE IF Head(a) = Head(b) THEN CompareCase(Tail(a), Tail(b))
    ELSE IF Head(a) \in Range(LowerCase) THEN -1 ELSE 1

localeCompare(a, b) ==
    IF ComparePrimary(a, b) # 0 THEN ComparePrimary(a, b) ELSE CompareCase(a, b)

\* a comparator that puts the smaller count first
SortsBeforeAscending(a, b) ==
    IF b.count # a.count THEN a.count - b.count < 0
    ELSE localeCompare(a.fileName, b.fileName) < 0

\* the comparator of playlistEntries.sort is negative for (a, b)
SortsBefore(a, b) ==
    IF b.count # a.count THEN b.count - a.count < 0
    ELSE localeCompare(a.fileName, b.fileName) < 0

\* put e into a sorted list, behind the entries it does not sort before
InsertEntry(sorted, e) ==
    LET later == {i \in 1..Len(sorted) : SortsBefore(e, sorted[i])}
        at == IF later = {} THEN Len(sorted) + 1
              ELSE CHOOSE i \in later : \A j \in later : i <= j
    IN  SubSeq(sorted, 1, at - 1) \o << e >> \o SubSeq(sorted, at, Len(sorted))

\* Array.prototype.sort with that comparator (a stable sort)
RECURSIVE SortEntries(_)
SortEntries(list) ==
    IF list = << >> THEN << >>
    ELSE InsertEntry(SortEntries(SubSeq(list, 1, Len(list) - 1)), list[Len(list)])

\* `#EXTINF:-1,${entry.fileName} (appeared ${entry.count} times)`
FolderExtinf(entry) ==
    EXTINF \o << "-", "1", "," >> \o entry.fileName
        \o << " ", "(", "a", "p", "p", "e", "a", "r", "e", "d", " " >>
        \o NumberToString(entry.count) \o << " ", "t", "i", "m", "e", "s", ")" >>

RECURSIVE FolderLines(_)
FolderLines(list) ==
    IF list = << >> THEN << >>
    ELSE << FolderExtinf(Head(list)), Head(list).filePath >> \o FolderLines(Tail(list))

\* generateM3UContent of generate-m3u/route.ts
generateFolderM3UContent(list) == Join(<< EXTM3U >> \o FolderLines(list), NL)

\* fs.writeFile(path.join(baseMusicFolder, name), content) as the folder sees it
WriteBaseFile(files, name, content) ==
    IF \E i \in 1..Len(files) : files[i].name = name
    THEN [i \in 1..Len(files) |->
            IF files[i].name = name THEN [files[i] EXCEPT !.content = content]
            ELSE files[i]]
    ELSE Append(files, [name |-> name, content |-> content, readable |-> TRUE])

RECURSIVE SumCounts(_)
SumCounts(list) == IF list = << >> THEN 0 ELSE Head(list).count + SumCounts(Tail(list))

\* the sorted entries of the playlist of one subfolder
FolderEntries(base, folder, counts) ==
    SortEntries(PlaylistEntries(base,
                    getMp3FilesInFolder(PathJoin(base, folder.name), folder.items), counts))

\* `${subfolder}.m3u`
FolderM3uName(subfolder) == subfolder \o DotM3u

\* ---- the inputs of the handler
GenRequestOk == [baseMusicFolder |-> BaseMusicFolder]
GenRequests == {GenRequestOk, NoGenRequest}

BaseFile(name, lines, readable) ==
    [name |-> name, content |-> Join(lines, NL), readable |-> readable]

SongEB == << "e", "/", "b", ".", "m", "p", "3" >>
SongECBack == << "e", "\\", "c", ".", "m", "p", "3" >>
SongEC == NormalizeSeparators(SongECBack)
SongEBUpper == << "e", "/", "B", ".", "M", "P", "3" >>
SongEA == << "e", "/", "a", ".", "m", "p", "3" >>
SongHSA == << "h", "/", "s", "/", "a", ".", "m", "p", "3" >>
SongZ == << "z", ".", "m", "p", "3" >>

\* the files of the base folder: a playlist naming one song twice, the same
\* file unreadable, a playlist with an upper-case extension, a playlist with the
\* name a generated playlist gets, and a text file that is no playlist
BaseFileVocab ==
    { BaseFile(<< "f", ".", "m", "3", "u" >>, << EXTM3U, LInf1, SongEB, SongECBack, SongEB >>, TRUE),
      BaseFile(<< "f", ".", "m", "3", "u" >>, << EXTM3U, LInf1, SongEB, SongECBack, SongEB >>, FALSE),
      BaseFile(<< "g", ".", "M", "3", "U" >>, << SongEB, SongHSA, SongEBUpper >>, TRUE),
      BaseFile(<< "e", ".", "m", "3", "u" >>, << SongEC, SongHSA, SongZ, SongZ >>, TRUE),
      BaseFile(<< "r", ".", "t", "x", "t" >>, << SongEA >>, TRUE) }

\* the listings of a folder: no two files of one name
BaseListings ==
    {q \in SeqsUpTo(BaseFileVocab, MaxPlaylists) :
        \A i, j \in 1..Len(q) : q[i].name = q[j].name => i = j}

Item(name, dir) == [name |-> name, dir |-> dir]

\* what a subfolder holds: no mp3 file at all, three songs, or an upper-case
\* name beside a song in a nested directory
FolderVocab ==
    { << Item(<< "n", ".", "t", "x", "t" >>, EmptyStr) >>,
      << Item(<< "a", ".", "m", "p", "3" >>, EmptyStr),
         Item(<< "b", ".", "m", "p", "3" >>, EmptyStr),
         Item(<< "c", ".", "m", "p", "3" >>, EmptyStr) >>,
      << Item(<< "B", ".", "M", "P", "3" >>, EmptyStr),
         Item(<< "a", ".", "m", "p", "3" >>, << "s" >>) >> }

FolderNames == << << "e" >>, << "h" >>, << "k" >>, << "q" >> >>

\* the subfolders of the base folder, named in the order readdir gives
SubfolderLists ==
    { [i \in 1..Len(q) |-> [name |-> FolderNames[i], items |-> q[i]]] :
        q \in SeqsUpTo(FolderVocab, MaxFolders) }

\* ---- the handler, step by step
\* a loop that passes over no subfolder
SkipFolderNever(found) == FALSE

\* if (mp3Files.length === 0) continue
SkipFolder(found) == Len(found) = 0

\* a failed writeFile ends the loop
NextFolderStopOnFailure(i, written) == IF written THEN i + 1 ELSE Len(subfolders) + 1

\* the catch around writeFile only logs: the loop goes on with the next subfolder
NextFolder(i, written) == i + 1

\* a table counted anew from the files as they are when a subfolder is reached
SongCountsRecounted(counts, files) == countSongAppearances("ok", files)

\* songCounts.get in the loop reads the table built before the loop, whatever
\* the files of the base folder have become
SongCountsRead(counts, files) == counts

GenFail(message) ==
    /\ genStatus' = 400
    /\ genResponse' = Some([error |-> message])
    /\ genPc' = "done"

\* if (!baseMusicFolder)
GenValidate ==
    /\ genPc = "received"
    /\ IF genRequest.baseMusicFolder = EmptyStr
       THEN GenFail("Base music folder is required")
       ELSE genPc' = "access" /\ UNCHANGED << genStatus, genResponse >>
    /\ ioLog' = ioLog
    /\ UNCHANGED << genRequest, previousFiles, baseDir, baseFiles, subfolders, songCounts,
                    folderIndex, results, failedFolders >>

\* await fs.access(baseMusicFolder)
GenAccess ==
    /\ genPc = "access"
    /\ IF baseDir = "missing"
       THEN GenFail("Base music folder does not exist or is not accessible")
       ELSE genPc' = "count" /\ UNCHANGED << genStatus, genResponse >>
    /\ ioLog' = ioLog \cup {"access"}
    /\ UNCHANGED << genRequest, previousFiles, baseDir, baseFiles, subfolders, songCounts,
                    folderIndex, results, failedFolders >>

\* countSongAppearances, getSubfolders and the check that there are subfolders
GenCount ==
    /\ genPc = "count"
    /\ songCounts' = countSongAppearances(baseDir, baseFiles)
    /\ IF getSubfolders(baseDir, subfolders) = << >>
       THEN GenFail("No subfolders found in the base music directory")
            /\ folderIndex' = folderIndex
       ELSE /\ genPc' = "folders"
            /\ folderIndex' = 1
            /\ UNCHANGED << genStatus, genResponse >>
    /\ ioLog' = ioLog \cup {"readdir"}
                  \cup (IF baseDir = "ok" /\ SelectSeq(baseFiles, IsM3uFile) # << >>
                        THEN {"readFile"} ELSE {})
    /\ UNCHANGED << genRequest, previousFiles, baseDir, baseFiles, subfolders, results, failedFolders >>

\* one turn of for (const subfolder of subfolders)
GenFolder ==
    /\ genPc = "folders"
    /\ folderIndex <= Len(subfolders)
    /\ LET folder == subfolders[folderIndex]
           base == genRequest.baseMusicFolder
           playlistEntries == FolderEntries(base, folder,
                                            SongCountsRead(songCounts, baseFiles))
           m3uFileName == FolderM3uName(folder.name)
       IN  IF SkipFolder(playlistEntries)
           THEN /\ ioLog' = ioLog \cup {"readdir"}
                /\ folderIndex' = folderIndex + 1
                /\ UNCHANGED << baseFiles, results, failedFolders >>
           ELSE \E written \in BOOLEAN :
                  /\ ioLog' = ioLog \cup {"readdir", "writeFile"}
                  /\ folderIndex' = NextFolder(folderIndex, written)
                  /\ IF written
                     THEN /\ baseFiles' = WriteBaseFile(baseFiles, m3uFileName,
                                              generateFolderM3UContent(playlistEntries))
                          /\ results' = Append(results,
                                 [folder |-> folder.name,
                                  songsCount |-> Len(playlistEntries),
                                  m3uFile |-> m3uFileName,
                                  totalAppearances |-> SumCounts(playlistEntries)])
                          /\ failedFolders' = failedFolders
                     ELSE /\ failedFolders' = failedFolders \cup {folder.name}
                          /\ UNCHANGED << baseFiles, results >>
    /\ UNCHANGED << genRequest, previousFiles, baseDir, subfolders, genPc, songCounts, genStatus,
                    genResponse >>

\* the answer after the loop
GenRespond ==
    /\ genPc = "folders"
    /\ folderIndex > Len(subfolders)
    /\ genStatus' = 200
    /\ genResponse' = Some([success |-> TRUE, results |-> results,
                            totalFolders |-> Len(getSubfolders(baseDir, subfolders))])
    /\ genPc' = "done"
    /\ ioLog' = ioLog
    /\ UNCHANGED << genRequest, previousFiles, baseDir, baseFiles, subfolders, songCounts,
                    folderIndex, results, failedFolders >>

GenInit ==
    /\ disk = Undefined
    /\ CodecIdle
    /\ RoundTripIdle
    /\ ScoreIdle
    /\ SyncIdle
    /\ ioLog = {}
    /\ genRequest \in GenRequests
    /\ baseDir \in {"missing", "unreadable", "ok"}
    /\ baseFiles \in BaseListings
    /\ subfolders \in SubfolderLists
    /\ genPc = "received"
    /\ songCounts = << >>
    /\ folderIndex = 0
    /\ results = << >>
    /\ failedFolders = {}
    /\ genStatus = 0
    /\ genResponse = Undefined
    /\ previousFiles = Undefined
    /\ NormIdle
    /\ SyncAllIdle

GenNext ==
    \/ GenValidate /\ UNCHANGED << codecVars, roundTripVars, scoreVars, syncVars, normVars, syncAllVars >>
    \/ GenAccess /\ UNCHANGED << codecVars, roundTripVars, scoreVars, syncVars, normVars, syncAllVars >>
    \/ GenCount /\ UNCHANGED << codecVars, roundTripVars, scoreVars, syncVars, normVars, syncAllVars >>
    \/ GenFolder /\ UNCHANGED << codecVars, roundTripVars, scoreVars, syncVars, normVars, syncAllVars >>
    \/ GenRespond /\ UNCHANGED << codecVars, roundTripVars, scoreVars, syncVars, normVars, syncAllVars >>

SpecGen == GenInit /\ [][GenNext]_vars

\* ---- folder generation run again
\* the client sends the same request once more after a run in which every
\* playlist was written; the files are as that run left them
GenRerun ==
    /\ genPc = "done"
    /\ genStatus = 200
    /\ failedFolders = {}
    /\ previousFiles = Undefined
    /\ previousFiles' = Some(baseFiles)
    /\ genPc' = "received"
    /\ songCounts' = << >>
    /\ folderIndex' = 0
    /\ results' = << >>
    /\ genStatus' = 0
    /\ genResponse' = Undefined
    /\ ioLog' = {}
    /\ UNCHANGED << genRequest, baseDir, baseFiles, subfolders, failedFolders >>

RegenInit ==
    /\ GenInit
    /\ genRequest = GenRequestOk
    /\ baseDir = "ok"

RegenNext ==
    \/ GenNext
    \/ GenRerun /\ UNCHANGED << codecVars, roundTripVars, scoreVars, syncVars, normVars, syncAllVars >>

SpecRegen == RegenInit /\ [][RegenNext]_vars

\* ---------------------------------------------- a normalizer applied twice
\* the pieces the strings handed to a normalizer are made of
PieceVocab ==
    { << "A" >>, << "b" >>, << " " >>, << "\t", " " >>, << "!" >>, << "_", "3" >>,
      << ".", "m", "p", "3" >>, << ".", "M", "P", "3" >> }

NormInputs == {Flatten(q) : q \in SeqsUpTo(PieceVocab, MaxPieces)}

\* the normalizer of track strings or the one of file names
NormalizeBy(kind, text) ==
    IF kind = "track" THEN NormalizeText(text) ELSE normalizeFileName(text)

NormalizeOnce ==
    /\ normOnce = Undefined
    /\ normOnce' = Some(NormalizeBy(normKind, normInput))
    /\ UNCHANGED << normInput, normKind, normTwice >>

NormalizeAgain ==
    /\ normOnce # Undefined
    /\ normTwice = Undefined
    /\ normTwice' = Some(NormalizeBy(normKind, normOnce[1]))
    /\ UNCHANGED << normInput, normKind, normOnce >>

NormInit ==
    /\ disk = Undefined
    /\ CodecIdle
    /\ RoundTripIdle
    /\ ScoreIdle
    /\ SyncIdle
    /\ ioLog = {}
    /\ GenIdle
    /\ normInput \in NormInputs
    /\ normKind \in {"track", "file"}
    /\ normOnce = Undefined
    /\ normTwice = Undefined
    /\ SyncAllIdle

NormNext ==
    \/ NormalizeOnce /\ UNCHANGED << codecVars, roundTripVars, scoreVars, syncVars, ioLog, genVars, syncAllVars >>
    \/ NormalizeAgain /\ UNCHANGED << codecVars, roundTripVars, scoreVars, syncVars, ioLog, genVars, syncAllVars >>

SpecNorm == NormInit /\ [][NormNext]_vars

\* ---- a request to either handler
RequestsInit == SyncInit \/ GenInit

RequestsNext == SyncNext \/ GenNext

SpecRequests == RequestsInit /\ [][RequestsNext]_vars

\* ------------------------------------ SyncService.syncAllPlaylists
\* (src/services/sync-service.ts)
MappingVocab ==
    { Mapping,
      [spotifyPlaylistId |-> << "p", "2" >>, spotifyPlaylistName |-> << "Q" >>,
       languageFolderName |-> << "h" >>, m3uFileName |-> << "q", ".", "m", "3", "u" >>],
      [spotifyPlaylistId |-> << "p", "3" >>, spotifyPlaylistName |-> << "P" >>,
       languageFolderName |-> LanguageFolder, m3uFileName |-> << "r", ".", "m", "3", "u" >>] }

\* how the request of syncPlaylist can end: the response is not ok, or it is
\* ok for a remote playlist without tracks, or ok with tracks
SyncOutcomes == {"failed", "empty", "matched"}

\* the SyncResult the handler of /api/sync returns for a mapping
SyncResultOf(mapping, base, total, matched, unmatched) ==
    [playlistId |-> mapping.spotifyPlaylistId,
     playlistName |-> mapping.spotifyPlaylistName,
     totalTracks |-> total,
     matchedTracks |-> matched,
     unmatchedTracks |-> unmatched,
     m3uFilePath |-> PathJoin(base, mapping.m3uFileName)]

\* syncPlaylist: Undefined when it throws, else Some(result of the response)
syncPlaylist(mapping, base, outcome) ==
    IF outcome = "failed" THEN Undefined
    ELSE IF outcome = "empty" THEN Some(SyncResultOf(mapping, base, 0, 0, << >>))
    ELSE Some(SyncResultOf(mapping, base, 2, 1, << << "2" >> >>))

\* the result pushed in the catch of the loop
FailedResult(mapping) ==
    [playlistId |-> mapping.spotifyPlaylistId,
     playlistName |-> mapping.spotifyPlaylistName,
     totalTracks |-> 0,
     matchedTracks |-> 0,
     unmatchedTracks |-> << >>,
     m3uFilePath |-> EmptyStr]

\* a catch that only logs
PushNothing(list, mapping) == list

\* results.push({...}) in the catch
PushFailedResult(list, mapping) == Append(list, FailedResult(mapping))

\* one turn of for (let i = 0; i < mappings.length; i++)
SyncOneMapping ==
    /\ syncAllPc = "loop"
    /\ mappingIndex <= Len(mappings)
    /\ \E outcome \in SyncOutcomes :
          LET mapping == mappings[mappingIndex]
              result == syncPlaylist(mapping, BaseMusicFolder, outcome)
          IN  IF result # Undefined
              THEN /\ allResults' = Append(allResults, result[1])
                   /\ failedSyncs' = failedSyncs
              ELSE /\ allResults' = PushFailedResult(allResults, mapping)
                   /\ failedSyncs' = failedSyncs \cup {mappingIndex}
    /\ mappingIndex' = mappingIndex + 1
    /\ UNCHANGED << mappings, syncAllPc >>

\* return results
SyncAllReturn ==
    /\ syncAllPc = "loop"
    /\ mappingIndex > Len(mappings)
    /\ syncAllPc' = "returned"
    /\ UNCHANGED << mappings, mappingIndex, allResults, failedSyncs >>

SyncAllInit ==
    /\ disk = Undefined
    /\ CodecIdle
    /\ RoundTripIdle
    /\ ScoreIdle
    /\ SyncIdle
    /\ ioLog = {}
    /\ GenIdle
    /\ NormIdle
    /\ mappings \in SeqsUpTo(MappingVocab, MaxMappings)
    /\ syncAllPc = "loop"
    /\ mappingIndex = 1
    /\ allResults = << >>
    /\ failedSyncs = {}

SyncAllNext ==
    \/ SyncOneMapping /\ UNCHANGED << codecVars, roundTripVars, scoreVars, syncVars, ioLog, genVars, normVars >>
    \/ SyncAllReturn /\ UNCHANGED << codecVars, roundTripVars, scoreVars, syncVars, ioLog, genVars, normVars >>

SpecSyncAll == SyncAllInit /\ [][SyncAllNext]_vars

\* ------------------------------------------------- vocabulary of the claims
Paths(tracks) == [i \in 1..Len(tracks) |-> tracks[i].filePath]

PairwiseDistinct(seq) == \A i, j \in 1..Len(seq) : seq[i] = seq[j] => i = j

\* the elements of seq, each once, in the order of their first occurrence
RECURSIVE FirstOccurrences(_)
FirstOccurrences(seq) ==
    IF seq = << >> THEN << >>
    ELSE LET front == SubSeq(seq, 1, Len(seq) - 1)
             last == seq[Len(seq)]
         IN  IF last \in Range(front) THEN FirstOccurrences(front)
             ELSE Append(FirstOccurrences(front), last)

\* the extinf of the last entry of tracks whose path is p
LastExtinf(tracks, p) ==
    LET at == {i \in 1..Len(tracks) : tracks[i].filePath = p}
    IN  tracks[CHOOSE i \in at : \A j \in at : j <= i].extinf

\* a PUT in merge mode was answered with 200: the file now holds merge(X, Y)
Merged == request.method = "PUT" /\ status = 200 /\ MergeModeOf(request)
MergeX == parseM3UContent(ReadExisting(existingContent))
MergeY == parseM3UContent(request.content[1])
MergeResult == parseM3UContent(disk[1])

\* C2: merging the same new content a second time changes no parsed entry:
\* parse(merge(merge(X,Y),Y)) = parse(merge(X,Y)), paths, extinf lines and order
Thm_C2_MergeIdempotent ==
    (Merged /\ phase = "resent") => MergeResult = MergeX

\* a second merge that had entries of the old file and of the new content
Wit_C2_MergeIdempotent ==
    /\ Merged /\ phase = "resent"
    /\ LET X == MergeX
           Y == MergeY
           R == MergeResult
       IN  /\ Len(Y) >= 1
           /\ Len(R) > Len(FirstOccurrences(Paths(Y)))
           /\ \E i \in 1..Len(Y) : Y[i].filePath \in Range(Paths(X))

\* the paths the claim gives merge(X,Y): the distinct paths of X in order of
\* first occurrence, then the paths of Y not in X in the order first met
ExpectedMergePaths(X, Y) ==
    LET inX == Range(Paths(X))
    IN  FirstOccurrences(Paths(X)) \o
        FirstOccurrences(SelectSeq(Paths(Y), LAMBDA p : p \notin inX))

\* the extinf the claim gives path p: that of its last occurrence in Y if it
\* occurs in Y, otherwise that of its last occurrence in X
ExpectedMergeExtinf(X, Y, p) ==
    IF \E j \in 1..Len(Y) : Y[j].filePath = p THEN LastExtinf(Y, p)
    ELSE LastExtinf(X, p)

\* C3: merge(X,Y) keeps original positions and lets the last writer win: its
\* paths are the distinct paths of X, then the new paths of Y, and each path
\* has the extinf of its last occurrence in Y, or else in X
Thm_C3_MergeOrderLastWriter ==
    Merged =>
        LET X == MergeX
            Y == MergeY
            R == MergeResult
        IN  /\ Paths(R) = ExpectedMergePaths(X, Y)
            /\ \A i \in 1..Len(R) : R[i].extinf = ExpectedMergeExtinf(X, Y, R[i].filePath)

\* a merge where the new content overwrites the extinf of a path of the old
\* file that is not its last path, and adds a path of its own
Wit_C3_MergeOrderLastWriter ==
    /\ Merged /\ phase = "served"
    /\ LET X == MergeX
           Y == MergeY
       IN  /\ \E i \in 1..Len(X), j \in 1..Len(Y) :
                 /\ i < Len(X)
                 /\ X[i].filePath = Y[j].filePath
                 /\ X[i].extinf # Y[j].extinf
                 /\ X[i].filePath # X[Len(X)].filePath
           /\ \E j \in 1..Len(Y) : Y[j].filePath \notin Range(Paths(X))

\* C4 as stated: for every text X, merge(X, "") parses back to the entries of X
MergedEmpty == Merged /\ phase = "served" /\ request.content[1] = EmptyStr

Orig_C4_MergeEmpty == MergedEmpty => MergeResult = MergeX

\* C4 as amended: for every text X whose paths are pairwise distinct,
\* merge(X, "") parses back to exactly the entries of X
Thm_C4_MergeEmptyDistinct ==
    MergedEmpty =>
        LET X == MergeX
        IN  PairwiseDistinct(Paths(X)) => MergeResult = X

\* empty content merged into a file of two distinct paths, one with an extinf
Wit_C4_MergeEmptyDistinct ==
    /\ MergedEmpty
    /\ LET X == MergeX
       IN  /\ PairwiseDistinct(Paths(X))
           /\ Len(X) >= 2
           /\ \E i \in 1..Len(X) : X[i].extinf # Undefined

\* C5 as stated: in a merged text no two entries have paths that are equal
\* after their separators are normalized to '/'
Orig_C5_MergeUniqueNormalized ==
    Merged =>
        LET R == MergeResult
        IN  PairwiseDistinct([i \in 1..Len(R) |-> NormalizeSeparators(R[i].filePath)])

\* C6 as stated: parse(serialize(entries)) = entries for every entry list with
\* pairwise distinct paths
Orig_C6_RoundTrip ==
    (parsed # Undefined /\ PairwiseDistinct(Paths(entries))) => parsed[1] = entries

\* an entry parse can produce: its path is a non-empty trimmed line that does
\* not start with '#', its extinf (if any) a trimmed line starting '#EXTINF:'
OneLine(s) == NL \notin Range(s) /\ Trim(s) = s

WellFormedEntry(e) ==
    /\ e.filePath # EmptyStr /\ OneLine(e.filePath) /\ ~StartsWith(e.filePath, Hash)
    /\ e.extinf # Undefined => (OneLine(e.extinf[1]) /\ StartsWith(e.extinf[1], EXTINF))

WellFormed(tracks) == \A i \in 1..Len(tracks) : WellFormedEntry(tracks[i])

\* C6 as amended: parse(serialize(entries)) = entries for every entry list with
\* pairwise distinct paths whose entries are well formed
Thm_C6_RoundTripWellFormed ==
    (parsed # Undefined /\ PairwiseDistinct(Paths(entries)) /\ WellFormed(entries))
        => parsed[1] = entries

\* two well-formed entries, one with and one without extinf, serialized and parsed
Wit_C6_RoundTripWellFormed ==
    /\ parsed # Undefined
    /\ PairwiseDistinct(Paths(entries)) /\ WellFormed(entries)
    /\ Len(entries) >= 2
    /\ \E i, j \in 1..Len(entries) :
          entries[i].extinf # Undefined /\ entries[j].extinf = Undefined

\* C10: score(a, a) = 1.0 for every non-empty normalized string a that has at
\* least one token of length greater than 1
Thm_C10_ScoreSelfIsOne ==
    (/\ score # Undefined
     /\ normalizedTrack = normalizedFilename
     /\ normalizedTrack # EmptyStr
     /\ \E i \in 1..Len(AllTokens(normalizedTrack)) : LongWord(AllTokens(normalizedTrack)[i]))
        => ScoreEq(score[1], Score(1, 1))

\* a string scored against itself that has a one-letter token beside a longer one
Wit_C10_ScoreSelfIsOne ==
    /\ score # Undefined
    /\ normalizedTrack = normalizedFilename
    /\ \E i, j \in 1..Len(AllTokens(normalizedTrack)) :
          /\ LongWord(AllTokens(normalizedTrack)[i])
          /\ ~LongWord(AllTokens(normalizedTrack)[j])
    /\ ScoreEq(score[1], Score(1, 1))

\* the scores of the scanned files for one track, in the order of the files
ScoresOf(track, files) ==
    [j \in 1..Len(files) |->
        calculateMatchScore(normalizeTrackInfo(track), files[j].normalizedName)]

\* file j has the maximum of the scores
IsMaxScore(scores, j) == \A k \in 1..Len(scores) : ~ScoreLess(scores[j], scores[k])

\* C1 as stated: every path entry that was in the playlist file before a sync
\* is still in the file after the sync
Orig_C1_SyncKeepsEntries ==
    (pc = "done" /\ syncStatus = 200) =>
        LET before == parseM3UContent(ReadExisting(existingContent))
            after == parseM3UContent(disk[1])
        IN  \A i \in 1..Len(before) : before[i].filePath \in Range(Paths(after))

\* C7: matchTracks returns one record per remote track, in the order of the
\* tracks: record i carries track i, whatever the local files are
Thm_C7_OneRecordPerTrack ==
    matches # Undefined =>
        /\ Len(matches[1]) = Len(allTracks)
        /\ \A i \in 1..Len(allTracks) : matches[1][i].spotifyTrack = allTracks[i]

\* two different tracks, the first without a file and the second with one
Wit_C7_OneRecordPerTrack ==
    /\ matches # Undefined
    /\ Len(allTracks) >= 2
    /\ allTracks[1] # allTracks[2]
    /\ ~matches[1][1].isMatched
    /\ matches[1][2].isMatched

\* C8: a track is matched to the first file, in the order of the files, that
\* attains the maximum score, provided that maximum is at least 0.6; if the
\* maximum is below 0.6, or there is no file, the track is unmatched
Thm_C8_FirstMaxWins ==
    matches # Undefined =>
        \A i \in 1..Len(matches[1]) :
            LET m == matches[1][i]
                files == mp3Files[1]
                scores == ScoresOf(m.spotifyTrack, files)
                best == {j \in 1..Len(files) : IsMaxScore(scores, j)}
            IN  IF files = << >> \/ \A j \in best : ~AtLeastThreshold(scores[j])
                THEN ~m.isMatched
                ELSE /\ m.isMatched
                     /\ m.localFilePath =
                           Some(files[CHOOSE j \in best : \A k \in best : j <= k].path)

\* a track for which two files attain the same maximum score
Wit_C8_FirstMaxWins ==
    /\ matches # Undefined
    /\ \E i \in 1..Len(matches[1]) :
          LET m == matches[1][i]
              files == mp3Files[1]
              scores == ScoresOf(m.spotifyTrack, files)
          IN  /\ m.isMatched
              /\ \E j, k \in 1..Len(files) :
                    /\ j < k
                    /\ IsMaxScore(scores, j) /\ IsMaxScore(scores, k)
                    /\ m.localFilePath = Some(files[j].path)

\* C9: isMatched is true exactly when localFilePath is present; a track no file
\* scores at least 0.6 for is unmatched without a path; a matched record has
\* the score of its file, which lies in [0.6, 1]
Thm_C9_MatchedIffPath ==
    matches # Undefined =>
        \A i \in 1..Len(matches[1]) :
            LET m == matches[1][i]
                files == mp3Files[1]
                scores == ScoresOf(m.spotifyTrack, files)
            IN  /\ m.isMatched <=> m.localFilePath # Undefined
                /\ (\A j \in 1..Len(files) : ~AtLeastThreshold(scores[j]))
                      => (~m.isMatched /\ m.localFilePath = Undefined)
                /\ m.isMatched =>
                      /\ m.matchScore # Undefined
                      /\ \E j \in 1..Len(files) :
                            /\ files[j].path = m.localFilePath[1]
                            /\ ScoreEq(m.matchScore[1], scores[j])
                      /\ AtLeastThreshold(m.matchScore[1])
                      /\ ~ScoreLess(Score(1, 1), m.matchScore[1])

\* a record matched with a score strictly between 0.6 and 1, and a record left
\* unmatched although a file scored more than 0
Wit_C9_MatchedIffPath ==
    /\ matches # Undefined
    /\ \E i \in 1..Len(matches[1]) :
          /\ matches[1][i].isMatched
          /\ ScoreLess(matches[1][i].matchScore[1], Score(1, 1))
    /\ \E i \in 1..Len(matches[1]) :
          /\ ~matches[1][i].isMatched
          /\ \E j \in 1..Len(mp3Files[1]) :
                ScoreLess(ScoreZero, ScoresOf(matches[1][i].spotifyTrack, mp3Files[1])[j])

\* ------------------------------------------- popularity and folder playlists
\* the path lines of a playlist text: the lines that, trimmed, are neither
\* empty nor comments, with '\' replaced by '/'
PathLinesOf(content) ==
    LET raw == Split(content, NL)
        trimmed == [i \in 1..Len(raw) |-> Trim(raw[i])]
    IN  [i \in {k \in 1..Len(raw) : trimmed[k] # EmptyStr /\ ~StartsWith(trimmed[k], Hash)}
            |-> NormalizeSeparators(trimmed[i])]

\* the playlist files directly inside the base folder that can be read
IsCountedFile(file) == file.readable /\ EndsWith(toLowerCase(file.name), DotM3u)

\* the places (file, line) at which the counted playlist files name path
Occurrences(path) ==
    {fl \in UNION {{<< f, l >> : l \in DOMAIN PathLinesOf(baseFiles[f].content)} :
                        f \in 1..Len(baseFiles)} :
        IsCountedFile(baseFiles[fl[1]]) /\ PathLinesOf(baseFiles[fl[1]].content)[fl[2]] = path}

\* every path a file of the base folder names, counted or not
NamedPaths ==
    UNION {{PathLinesOf(baseFiles[f].content)[l] : l \in DOMAIN PathLinesOf(baseFiles[f].content)} :
              f \in 1..Len(baseFiles)}

\* the count is done and no playlist has been written since
Counted == genPc \in {"folders", "done"} /\ baseDir = "ok" /\ "readdir" \in ioLog /\ results = << >>

\* C11: the count of a path is the number of path lines equal to it, with '\'
\* replaced by '/', over the readable playlist files directly inside the base
\* folder; a path no such line names has no entry
Thm_C11_CountsOccurrences ==
    Counted =>
        /\ \A path \in NamedPaths \cup DOMAIN songCounts \cup {SongEA} :
              CountOf(songCounts, path) = Cardinality(Occurrences(path))
        /\ \A path \in DOMAIN songCounts : songCounts[path] >= 1

\* a path named twice by one playlist and a path named once by each of two
\* playlists both have count 2, and a song no playlist names has no entry
Wit_C11_CountsOccurrences ==
    /\ Counted
    /\ \E path \in DOMAIN songCounts :
          /\ songCounts[path] = 2
          /\ \A a, b \in Occurrences(path) : a[1] = b[1]
    /\ \E path \in DOMAIN songCounts :
          /\ songCounts[path] = 2
          /\ \E a, b \in Occurrences(path) : a[1] # b[1]
    /\ SongEA \notin DOMAIN songCounts

IsReadable(file) == file.readable

\* C12: a playlist file that cannot be read is passed over: the count goes on
\* with the files after it, and the table is the table of the readable files
Thm_C12_UnreadableSkipped ==
    Counted =>
        /\ songCounts = countSongAppearances(baseDir, SelectSeq(baseFiles, IsReadable))
        /\ \A f \in 1..Len(baseFiles) :
              IsCountedFile(baseFiles[f]) =>
                  \A l \in DOMAIN PathLinesOf(baseFiles[f].content) :
                      PathLinesOf(baseFiles[f].content)[l] \in DOMAIN songCounts
        /\ genStatus # 500

\* an unreadable playlist file is followed by a readable one that names songs
Wit_C12_UnreadableSkipped ==
    /\ Counted
    /\ \E f, g \in 1..Len(baseFiles) :
          /\ f < g
          /\ ~baseFiles[f].readable /\ EndsWith(toLowerCase(baseFiles[f].name), DotM3u)
          /\ IsCountedFile(baseFiles[g])
    /\ songCounts # << >>

\* the paths, relative to the base folder, of the mp3 files of a subfolder
FolderSongPaths(folder) ==
    {folder.name \o << "/" >>
        \o (IF item.dir = EmptyStr THEN item.name ELSE item.dir \o << "/" >> \o item.name) :
            item \in {it \in Range(folder.items) : EndsWith(toLowerCase(it.name), DotMp3)}}

\* the last segment of a path
BaseName(path) == Split(path, "/")[Len(Split(path, "/"))]

SubfolderNamed(name) == CHOOSE folder \in Range(subfolders) : folder.name = name

\* the path entries of the file of that name in the base folder
WrittenPaths(name) ==
    Paths(parseM3UContent((CHOOSE file \in Range(baseFiles) : file.name = name).content))

\* C13: a synthesized folder playlist lists every mp3 file of the folder once,
\* by appearance count descending and, among equal counts, by file name ascending
Thm_C13_FolderPlaylistOrder ==
    \A k \in 1..Len(results) :
        LET paths == WrittenPaths(results[k].m3uFile)
            songs == FolderSongPaths(SubfolderNamed(results[k].folder))
        IN  /\ Range(paths) = songs
            /\ Len(paths) = Cardinality(songs)
            /\ \A i, j \in 1..Len(paths) :
                  i < j =>
                     \/ CountOf(songCounts, paths[i]) > CountOf(songCounts, paths[j])
                     \/ /\ CountOf(songCounts, paths[i]) = CountOf(songCounts, paths[j])
                        /\ localeCompare(BaseName(paths[i]), BaseName(paths[j])) <= 0

\* counts a.mp3: 0, b.mp3: 2, c.mp3: 1 give the playlist b, c, a
Wit_C13_FolderPlaylistOrder ==
    /\ Len(results) >= 1
    /\ CountOf(songCounts, SongEA) = 0
    /\ CountOf(songCounts, SongEB) = 2
    /\ CountOf(songCounts, SongEC) = 1
    /\ WrittenPaths(results[1].m3uFile) = << SongEB, SongEC, SongEA >>

\* the loop is at a subfolder without any mp3 file
AtFolderWithoutSongs ==
    /\ genPc = "folders"
    /\ folderIndex <= Len(subfolders)
    /\ FolderSongPaths(subfolders[folderIndex]) = {}

\* C14: a subfolder without mp3 files gets no playlist file and no entry in
\* the results, and no playlist without entries is ever written
Thm_C14_EmptyFolderSkipped ==
    [][ /\ AtFolderWithoutSongs => (baseFiles' = baseFiles /\ results' = results)
        /\ baseFiles' # baseFiles =>
              /\ Len(results') = Len(results) + 1
              /\ results'[Len(results')].songsCount >= 1
              /\ LET written == CHOOSE file \in Range(baseFiles') :
                                    file.name = results'[Len(results')].m3uFile
                 IN  Len(parseM3UContent(written.content)) >= 1 ]_vars

\* a run that ended well: the first subfolder has no mp3 file and is in no
\* result, the second has a playlist
Wit_C14_EmptyFolderSkipped ==
    /\ genPc = "done" /\ genStatus = 200
    /\ Len(subfolders) >= 2
    /\ FolderSongPaths(subfolders[1]) = {}
    /\ failedFolders = {}
    /\ Len(results) = 1
    /\ results[1].folder = subfolders[2].name
    /\ \A file \in Range(baseFiles) : file.name # FolderM3uName(subfolders[1].name)

\* C15: when the write of one folder's playlist fails, every other subfolder
\* with mp3 files has its playlist, earlier or later, as it was written
Thm_C15_WriteFailureContinues ==
    (genPc = "done" /\ genStatus = 200) =>
        \A k \in 1..Len(subfolders) :
            (FolderSongPaths(subfolders[k]) # {} /\ subfolders[k].name \notin failedFolders) =>
                /\ \E r \in Range(results) : r.folder = subfolders[k].name
                /\ \E file \in Range(baseFiles) :
                      /\ file.name = FolderM3uName(subfolders[k].name)
                      /\ file.content = generateFolderM3UContent(
                            FolderEntries(genRequest.baseMusicFolder, subfolders[k], songCounts))
                /\ Range(WrittenPaths(FolderM3uName(subfolders[k].name)))
                      = FolderSongPaths(subfolders[k])

\* the write of the first subfolder's playlist failed and the second
\* subfolder has its playlist
Wit_C15_WriteFailureContinues ==
    /\ genPc = "done" /\ genStatus = 200
    /\ Len(subfolders) >= 2
    /\ subfolders[1].name \in failedFolders
    /\ subfolders[2].name \notin failedFolders
    /\ \E r \in Range(results) : r.folder = subfolders[2].name

\* what became of subfolder k in a run
FolderOutcome(k) ==
    IF FolderSongPaths(subfolders[k]) = {} THEN "skipped"
    ELSE IF subfolders[k].name \in failedFolders THEN "failed"
    ELSE "succeeded"

\* all that the body of the answer says about the subfolder of that name
ReportedAbout(name) == {r \in Range(genResponse[1].results) : r.folder = name}

\* C16 as stated: from the answer alone a folder whose write failed, a folder
\* skipped as empty and a folder whose playlist was written can be told apart
Orig_C16_ReportDistinguishes ==
    (genPc = "done" /\ genStatus = 200) =>
        \A j, k \in 1..Len(subfolders) :
            FolderOutcome(j) # FolderOutcome(k) =>
                ReportedAbout(subfolders[j].name) # ReportedAbout(subfolders[k].name)

\* the body of a sync request lacks one of its four required fields
SyncFieldMissing ==
    \/ syncRequest.playlistId = EmptyStr
    \/ syncRequest.accessToken = EmptyStr
    \/ syncRequest.mapping = Undefined
    \/ syncRequest.baseMusicFolder = EmptyStr

\* C17: a request that lacks a required field is rejected before any I/O:
\* folder generation without baseMusicFolder reads and writes nothing, a sync
\* without one of its four fields fetches, scans and writes nothing
Thm_C17_RejectedBeforeIO ==
    /\ (genPc # "none" /\ genRequest.baseMusicFolder = EmptyStr) =>
          /\ ioLog = {}
          /\ results = << >> /\ songCounts = << >>
          /\ genPc \in {"received", "done"}
          /\ genPc = "done" => (genStatus = 400 /\ genResponse # Undefined)
    /\ (pc # "none" /\ SyncFieldMissing) =>
          /\ ioLog = {}
          /\ allTracks = << >> /\ mp3Files = Undefined /\ matches = Undefined
          /\ request = NoRequest /\ existingContent = Undefined
          /\ pc \in {"received", "done"}
          /\ pc = "done" => (syncStatus = 400 /\ syncResult = Undefined)

\* a folder-generation request without baseMusicFolder was answered, with a
\* base folder at hand that has playlists and subfolders with songs
Wit_C17_RejectedBeforeIO ==
    /\ genPc = "done" /\ genStatus = 400
    /\ genRequest.baseMusicFolder = EmptyStr
    /\ baseDir = "ok"
    /\ baseFiles # << >>
    /\ \E k \in 1..Len(subfolders) : FolderSongPaths(subfolders[k]) # {}
    /\ ioLog = {}

\* C18: if the base music folder does not exist or cannot be read, folder
\* generation ends with one error and writes no playlist file
Thm_C18_NoBaseFolderNoWrite ==
    (genPc # "none" /\ baseDir # "ok") =>
        /\ "writeFile" \notin ioLog
        /\ results = << >>
        /\ genPc # "folders"
        /\ genPc = "done" =>
              /\ genStatus = 400
              /\ genResponse # Undefined
              /\ DOMAIN genResponse[1] = {"error"}

\* a well-formed request for a base folder that exists but cannot be read, with
\* subfolders full of songs, was answered
Wit_C18_NoBaseFolderNoWrite ==
    /\ genPc = "done" /\ genStatus = 400
    /\ genRequest.baseMusicFolder # EmptyStr
    /\ baseDir = "unreadable"
    /\ "access" \in ioLog
    /\ \E k \in 1..Len(subfolders) : FolderSongPaths(subfolders[k]) # {}

\* C19: normalize is idempotent, normalize(normalize(s)) = normalize(s), for
\* the normalizer of track strings and for the one of file names
Thm_C19_NormalizeIdempotent ==
    normTwice # Undefined => normTwice = normOnce

\* a file name with two extensions, which the normalizer changed, normalized twice
Wit_C19_NormalizeIdempotent ==
    /\ normTwice # Undefined
    /\ normKind = "file"
    /\ Len(normInput) >= 2 * Len(DotMp3)
    /\ EndsWith(toLowerCase(normInput), DotMp3 \o DotMp3)
    /\ normOnce[1] # normInput
    /\ normOnce[1] # EmptyStr

\* normalize(text, options) as the options say: each step only if its option asks for it
NormalizeAs(text, options) ==
    LET cased == IF options.caseSensitive THEN text ELSE toLowerCase(text)
        stripped == IF options.removeSpecialChars THEN RemoveSpecialChars(cased) ELSE cased
    IN  IF options.normalizeWhitespace THEN Trim(NormalizeWhitespace(stripped)) ELSE stripped

\* the string the matcher normalizes for a track
TrackInfoOf(track) == JoinStr(track.artists, << " " >>) \o << " " >> \o track.name

\* C20 as stated: the tracks of a sync request that carries a MatchingConfig
\* are normalized, and so matched, as that configuration says
Orig_C20_ConfigApplied ==
    (matches # Undefined /\ syncRequest.matchingConfig # Undefined) =>
        \A i \in 1..Len(allTracks) :
            normalizeTrackInfo(allTracks[i])
                = NormalizeAs(TrackInfoOf(allTracks[i]), syncRequest.matchingConfig[1])

\* ------------------------------------------------ separators and uniqueness
\* C21 as stated: no path line of a playlist file the system wrote holds a
\* backslash, whatever separators the paths it was given used; here for the
\* file a merge wrote
Orig_C21_PathLinesForwardSlash ==
    Merged =>
        LET R == MergeResult
        IN  \A i \in 1..Len(R) : "\\" \notin Range(R[i].filePath)

\* C22 as stated: the playlist file a sync wrote names each local file at most
\* once, also when several remote tracks best-match the same file
Orig_C22_SyncPathsUnique ==
    (pc = "done" /\ syncStatus = 200) =>
        PairwiseDistinct(Paths(parseM3UContent(disk[1])))

\* --------------------------------------------------------- parse in detail
\* the lines of a text, each trimmed, the empty ones kept
AllLinesTrimmed(content) ==
    LET raw == Split(content, NL) IN [i \in 1..Len(raw) |-> Trim(raw[i])]

\* the places of the path lines of a text: not empty, not starting with '#'
PathLinePlaces(content) ==
    LET lines == AllLinesTrimmed(content)
    IN  {i \in 1..Len(lines) : lines[i] # EmptyStr /\ ~StartsWith(lines[i], Hash)}

\* the k-th of a set of places
PathLinePlace(places, k) ==
    CHOOSE i \in places : Cardinality({j \in places : j < i}) = k - 1

\* the entry the claim gives the path line at place p of the trimmed lines:
\* the last '#EXTINF:' line after the path line before it, if there is one
ExpectedEntry(lines, places, p) ==
    LET before == {i \in places : i < p}
        from == IF before = {} THEN 0 ELSE CHOOSE i \in before : \A j \in before : j <= i
        infs == {i \in (from + 1)..(p - 1) : StartsWith(lines[i], EXTINF)}
    IN  M3UTrack(IF infs = {} THEN Undefined
                 ELSE Some(lines[CHOOSE i \in infs : \A j \in infs : j <= i]),
                 lines[p])

ExpectedParse(content) ==
    LET lines == AllLinesTrimmed(content)
        places == PathLinePlaces(content)
    IN  [k \in 1..Cardinality(places) |->
            ExpectedEntry(lines, places, PathLinePlace(places, k))]

\* C23: parse gives one entry for each trimmed non-empty line that does not
\* start with '#', in line order, with the last '#EXTINF:' line seen since the
\* path line before it (none if there is none); headers, comments and blank
\* lines in between do not clear it, an entry does
Thm_C23_ParseEntries ==
    Merged =>
        /\ MergeX = ExpectedParse(ReadExisting(existingContent))
        /\ MergeY = ExpectedParse(request.content[1])

\* a merge that parsed an old file in which a blank line, a header and a
\* comment stand between the second of two extinf lines and a padded path,
\* followed by a path without extinf
Wit_C23_ParseEntries ==
    /\ Merged /\ phase = "served"
    /\ existingContent # Undefined
    /\ LET lines == Split(existingContent[1], NL)
           X == MergeX
       IN  /\ Len(lines) = 7
           /\ SubSeq(lines, 1, 6) = << LInf1, LInf2, EmptyStr, EXTM3U, LComment, PathPadded >>
           /\ X = << M3UTrack(Some(LInf2), PathA), M3UTrack(Undefined, lines[7]) >>

\* ------------------------------------------------------- the score in detail
\* the tokens of a string that are longer than one character
LongTokens(s) == SelectSeq(Split(s, " "), LAMBDA w : Len(w) > 1)

ExpectedBonus(a, b) ==
    IF a = b THEN 3
    ELSE IF Includes(a, b) \/ Includes(b, a) THEN 2
    ELSE 0

\* C25: the score returned is the base score plus 0.3 for equal strings,
\* else plus 0.2 when one string contains the other, else plus 0, capped at
\* 1.0; every score returned lies in [0, 1]
Thm_C25_BonusAndCap ==
    score # Undefined =>
        /\ baseScore # Undefined =>
              LET sum == AddTenths(baseScore[1],
                                   ExpectedBonus(normalizedTrack, normalizedFilename))
              IN  IF ScoreLess(Score(1, 1), sum) THEN ScoreEq(score[1], Score(1, 1))
                  ELSE ScoreEq(score[1], sum)
        /\ ~ScoreLess(score[1], ScoreZero)
        /\ ~ScoreLess(Score(1, 1), score[1])
        /\ score[1].den > 0

\* a file name that is a part of the track string: base 1/2, score 0.7
Wit_C25_BonusAndCap ==
    /\ score # Undefined
    /\ baseScore # Undefined
    /\ ScoreEq(baseScore[1], Score(1, 2))
    /\ normalizedTrack # normalizedFilename
    /\ Includes(normalizedTrack, normalizedFilename)
    /\ ScoreEq(score[1], Score(7, 10))

\* the least number of insertions, deletions and substitutions of one
\* character that turn a into b
RECURSIVE EditDistance(_, _)
EditDistance(a, b) ==
    IF a = << >> THEN Len(b)
    ELSE IF b = << >> THEN Len(a)
    ELSE IF Head(a) = Head(b) THEN EditDistance(Tail(a), Tail(b))
    ELSE 1 + Min2(EditDistance(Tail(a), Tail(b)),
                  Min2(EditDistance(Tail(a), b), EditDistance(a, Tail(b))))

\* word-match as the claim defines it; 1 - d / max >= 0.8 in tenths
ExpectedWordMatch(a, b) ==
    \/ a = b
    \/ Len(a) >= 3 /\ Len(b) >= 3 /\ (Includes(a, b) \/ Includes(b, a))
    \/ /\ Abs(Len(a) - Len(b)) <= 2
       /\ 10 * (Max2(Len(a), Len(b)) - EditDistance(a, b)) >= 8 * Max2(Len(a), Len(b))

\* C26: for the tokens of the two strings scored, levenshteinDistance is the
\* exact edit distance and isWordMatch holds exactly for equal tokens, tokens
\* of length at least 3 one of which contains the other, and tokens whose
\* lengths differ by at most 2 with 1 - d / max(len) >= 0.8; a track string
\* of one long token has base score 1 exactly when that token matches a long
\* token of the file name
Thm_C26_WordMatchExact ==
    score # Undefined =>
        /\ \A i \in 1..Len(AllTokens(normalizedTrack)),
              j \in 1..Len(AllTokens(normalizedFilename)) :
              LET a == AllTokens(normalizedTrack)[i]
                  b == AllTokens(normalizedFilename)[j]
              IN  /\ levenshteinDistance(a, b) = EditDistance(a, b)
                  /\ isWordMatch(a, b) <=> ExpectedWordMatch(a, b)
        /\ (Len(LongTokens(normalizedTrack)) = 1 /\ baseScore # Undefined) =>
              (baseScore[1].num = 1 <=>
                  \E j \in 1..Len(LongTokens(normalizedFilename)) :
                      ExpectedWordMatch(LongTokens(normalizedTrack)[1],
                                        LongTokens(normalizedFilename)[j]))

\* two tokens of five letters one substitution apart (similarity exactly
\* 0.8) matched, beside a token that contains another without matching it
Wit_C26_WordMatchExact ==
    /\ score # Undefined
    /\ Len(LongTokens(normalizedTrack)) = 1
    /\ Len(LongTokens(normalizedFilename)) = 2
    /\ LET a == LongTokens(normalizedTrack)[1]
           b == LongTokens(normalizedFilename)
       IN  /\ Len(a) = 5 /\ Len(b[2]) = 5 /\ a # b[2]
           /\ levenshteinDistance(a, b[2]) = 1
           /\ Len(b[1]) = 2 /\ Includes(a, b[1]) /\ ~isWordMatch(a, b[1])
    /\ baseScore = Some(Score(1, 1))

\* ------------------------------------------------ the table during a run
\* the content of the file of that name in a listing of the base folder
ContentOf(files, name) == (CHOOSE file \in Range(files) : file.name = name).content

\* C27: the popularity table is built once, before any folder playlist is
\* written, and is not modified afterwards; a playlist that is written is made
\* from that table and the files of its own folder alone
Thm_C27_TableBuiltOnce ==
    [][ /\ songCounts' # songCounts =>
              /\ genPc = "count"
              /\ results = << >> /\ "writeFile" \notin ioLog
              /\ songCounts' = countSongAppearances(baseDir, baseFiles)
        /\ baseFiles' # baseFiles =>
              /\ genPc = "folders"
              /\ songCounts' = songCounts
              /\ ContentOf(baseFiles', FolderM3uName(subfolders[folderIndex].name))
                    = generateFolderM3UContent(
                          FolderEntries(genRequest.baseMusicFolder,
                                        subfolders[folderIndex], songCounts)) ]_vars

\* the second playlist of a run was written after the first one replaced a
\* playlist that had named one of its songs: counted anew when the second
\* subfolder was reached, the song would have had another count than the
\* table gives it
Wit_C27_TableBuiltOnce ==
    /\ genPc = "done" /\ genStatus = 200
    /\ Len(results) = 2
    /\ SongHSA \in Range(WrittenPaths(results[2].m3uFile))
    /\ CountOf(songCounts, SongHSA) = 1
    /\ CountOf(countSongAppearances("ok",
                   SelectSeq(baseFiles, LAMBDA file : file.name # results[2].m3uFile)),
               SongHSA) = 0
    /\ StartsWith(Split(ContentOf(baseFiles, results[2].m3uFile), NL)[2],
                  FolderExtinf([fileName |-> << "a", ".", "m", "p", "3" >>, count |-> 1]))

\* ------------------------------------------------------ failures of a sync
\* C28: the playlist file is written only after the first page of tracks was
\* fetched and the folder scan answered, both with success; when the first
\* fetch or the scan fails the handler answers 500 without a sync result and
\* the playlist file stays as it was
Thm_C28_WriteAfterFetchAndScan ==
    [][ /\ (disk' # disk \/ request' # request) =>
              /\ pc = "create"
              /\ {"fetch", "scan"} \subseteq ioLog
              /\ mp3Files # Undefined /\ matches # Undefined
              /\ Len(allTracks) >= Len(PageTracks(1))
              /\ SubSeq(allTracks, 1, Len(PageTracks(1))) = PageTracks(1)
        /\ pc = "fetch" =>
              \/ pc' \in {"paging", "scan"} /\ allTracks' = PageTracks(1)
              \/ pc' = "done" /\ allTracks' = << >>
        /\ pc = "scan" =>
              \/ pc' = "create" /\ mp3Files' # Undefined
              \/ pc' = "done" /\ mp3Files' = Undefined
        /\ (pc \in {"fetch", "scan"} /\ pc' = "done") =>
              /\ syncStatus' = 500
              /\ syncResult' = Undefined
              /\ disk' = disk /\ request' = NoRequest
              /\ "createFile" \notin ioLog' ]_vars

\* a sync that fetched two pages of tracks and then failed at the scan, with
\* a curated playlist file on disk that is still there
Wit_C28_WriteAfterFetchAndScan ==
    /\ pc = "done" /\ syncStatus = 500
    /\ Len(allTracks) = 2
    /\ "scan" \in ioLog
    /\ mp3Files = Undefined
    /\ syncResult = Undefined
    /\ disk = Some(CuratedText)
    /\ request = NoRequest

\* ------------------------------------------------ folder generation repeated
\* C29 as stated: a second run, with no file changed but the playlists the
\* first run wrote, gives every folder playlist the song order the first run
\* gave it
Orig_C29_RerunSameOrder ==
    (genPc = "done" /\ genStatus = 200 /\ previousFiles # Undefined) =>
        \A k \in 1..Len(results) :
            WrittenPaths(results[k].m3uFile)
                = Paths(parseM3UContent(ContentOf(previousFiles[1], results[k].m3uFile)))

\* ------------------------------------------------------ syncAllPlaylists
\* C30: syncAllPlaylists returns one result for each mapping, in the order of
\* the mappings; the result of a mapping whose sync failed carries its playlist
\* id and name, zero totals and an empty m3uFilePath, and the mappings after
\* it are synced all the same
Thm_C30_OneResultPerMapping ==
    syncAllPc # "none" =>
        /\ Len(allResults) = mappingIndex - 1
        /\ syncAllPc = "returned" => Len(allResults) = Len(mappings)
        /\ \A i \in 1..Len(allResults) :
              /\ allResults[i].playlistId = mappings[i].spotifyPlaylistId
              /\ allResults[i].playlistName = mappings[i].spotifyPlaylistName
              /\ IF i \in failedSyncs
                 THEN /\ allResults[i].totalTracks = 0
                      /\ allResults[i].matchedTracks = 0
                      /\ allResults[i].unmatchedTracks = << >>
                      /\ allResults[i].m3uFilePath = EmptyStr
                 ELSE allResults[i].m3uFilePath
                          = PathJoin(BaseMusicFolder, mappings[i].m3uFileName)

\* the sync of the first of two different mappings failed and the second
\* mapping was synced with tracks matched
Wit_C30_OneResultPerMapping ==
    /\ syncAllPc = "returned"
    /\ Len(mappings) = 2
    /\ mappings[1] # mappings[2]
    /\ failedSyncs = {1}
    /\ allResults[1].m3uFilePath = EmptyStr
    /\ allResults[2].matchedTracks = 1
    /\ allResults[2].playlistId = mappings[2].spotifyPlaylistId

====
